---- MODULE Spec2Model ----
(***************************************************************************)
(* ProtExAM: the paginated retrieval functions of protexam_query.py and    *)
(* protexam_input.py and the multi-root XML merge, as a state machine.     *)
(*                                                                         *)
(* Representation.  A list of identifiers (PMIDs) or of records is kept    *)
(* run-length encoded: a sequence of runs [lo, hi, tag], one run standing  *)
(* for the consecutive items lo, lo+1, .., hi that share the tag.  The     *)
(* encoding is canonical (no empty run, no two adjacent runs that could be *)
(* one), so two lists are equal exactly when their encodings are.  The     *)
(* server's result list of a search with total T is the ids 1..T in server *)
(* order; the id at 0-based offset k is k+1.                               *)
(***************************************************************************)
EXTENDS Integers, Sequences, FiniteSets, TLC

\* ---------------------------------------------------------------- bounds
\* Largest total count a search reports / largest number of ids handed to a
\* stage that is entered directly.
MaxCount == 2501

\* Largest number of PMIDs handed to download_ptc_gene_annotations when it
\* is entered directly.
MaxPtcCount == 301

\* Largest number of records without a 'PMC' field handed to
\* download_pmc_entries when it is entered directly.
MaxNoPmc == 1

\* In the runs of main the search reports a total of p * retmax or
\* p * retmax + 1, p up to MaxMainPages.
MaxMainPages == 2

\* Largest number of alternativeName elements and of gene elements of a
\* protein entry.
MaxAlternativeNames == 2
MaxGenes == 2

\* Largest number of accessions handed to download_uniprot_entries.
MaxAccessions == 2001

\* ------------------------------------------------------ program constants
retmax == 1000
efetch_batch_size == 1000
ptc_batch_size == 100

\* ------------------------------------------------------------- list model
Min(a, b) == IF a < b THEN a ELSE b

Run(lo, hi, tag) == [lo |-> lo, hi |-> hi, tag |-> tag]

RunLen(r) == r.hi - r.lo + 1

RECURSIVE ListLen(_)
ListLen(l) == IF l = <<>> THEN 0 ELSE RunLen(l[1]) + ListLen(Tail(l))

\* list concatenation (python's + and repeated append), kept canonical
Cat(l, m) ==
  IF l = <<>> THEN m
  ELSE IF m = <<>> THEN l
  ELSE LET a == l[Len(l)]
           b == m[1]
       IN IF a.hi + 1 = b.lo /\ a.tag = b.tag
          THEN SubSeq(l, 1, Len(l) - 1) \o <<Run(a.lo, b.hi, a.tag)>> \o Tail(m)
          ELSE l \o m

\* the canonical encoding of a list given run by run
RECURSIVE Canon(_)
Canon(l) == IF l = <<>> THEN <<>> ELSE Cat(<<l[1]>>, Canon(Tail(l)))

\* python's l[start : start + n]
RECURSIVE Slice(_, _, _)
Slice(l, start, n) ==
  IF l = <<>> \/ n <= 0 THEN <<>>
  ELSE LET r == l[1]
       IN IF start >= RunLen(r)
          THEN Slice(Tail(l), start - RunLen(r), n)
          ELSE LET a == r.lo + start
                   b == Min(r.hi, a + n - 1)
               IN Cat(<<Run(a, b, r.tag)>>, Slice(Tail(l), 0, n - (b - a + 1)))

\* how many times item x (with any tag) occurs in the list
RECURSIVE Occurrences(_, _)
Occurrences(l, x) ==
  IF l = <<>> THEN 0
  ELSE (IF l[1].lo <= x /\ x <= l[1].hi THEN 1 ELSE 0) + Occurrences(Tail(l), x)

\* the ids 1..n in order
Ids(n) == IF n = 0 THEN <<>> ELSE <<Run(1, n, "id")>>

\* ------------------------------------------------------------------ state
VARIABLES
  entry,        \* the function the run was started in
  args,         \* main: the command line options
  query,        \* run_pubmed_query's argument: a string or a list of terms
  srv_count,    \* server: total number of results of the search (Count)
  pc,           \* position of the single thread of control
  requests,     \* every remote request issued so far, in order
  pmid_list,    \* the PMID list (idlist / pmids in the functions given one)
  webenv,       \* the WebEnv value held by the running function
  count,        \* local variable count of the running function
  index,        \* local variable index (i in get_remote_docs)
  pm_recs,      \* the MEDLINE records held by the running function
  pmc_ids_trim, \* download_pmc_entries: the PMC ids, "PMC" trimmed off
  multiple_xml, \* download_pmc_entries, download_ptc_gene_annotations
  batches,      \* the batches phlp.batch_this has yet to yield
  success,      \* get_remote_docs
  caught,       \* the except clause of the running function has run
  fs,           \* the files written so far: file name -> content
  ret,          \* value returned by the function that has returned last
  srv_doctype,  \* server: the doctype lines of the PMC documents it sends
  content,      \* download_uniprot_entries: the entries of the parsed file
  entrycount,   \* download_uniprot_entries: entries gone through so far
  aliases,      \* download_uniprot_entries: the alias list of the last entry
  prompts,      \* main: the questions put so far, each with its answer
  query_dir,    \* the query directory exists
  mode,         \* download_uniprot_entries: its argument mode
  xml_paths,    \* download_uniprot_entries: the XML files to parse
  comp_count,   \* download_uniprot_entries: 1 + the files parsed so far
  articles,     \* download_pmc_entries: the articles of the parsed tree
  checked,      \* download_pmc_entries: articles the check has gone through
  pmid,         \* download_pmc_entries: local variable pmid
  pub_ids,      \* download_pmc_entries: local variable pub_ids
  fulldoc_ids,  \* download_pmc_entries: local variable fulldoc_ids
  doc_file_index, \* parse_docs: its argument, the files by file type
  doc_id,       \* parse_docs: local variable doc_id
  newrecords    \* parse_docs: the flattened records made so far

fixed == <<entry, args, query, srv_count, srv_doctype, content, mode,
           articles, doc_file_index>>

\* the locals of download_uniprot_entries
prot == <<entrycount, aliases, xml_paths, comp_count>>

\* the locals of the full-text check of download_pmc_entries
chk == <<checked, pmid, pub_ids, fulldoc_ids>>

\* the locals of parse_docs
prs == <<doc_id, newrecords>>

vars == <<entry, args, query, srv_count, pc, requests, pmid_list, webenv, count,
          index, pm_recs, pmc_ids_trim, multiple_xml, batches, success,
          caught, fs, ret, srv_doctype, content, entrycount, aliases, prompts,
          query_dir, mode, xml_paths, comp_count, articles, checked, pmid,
          pub_ids, fulldoc_ids, doc_file_index, doc_id, newrecords>>

NoWebEnv == "(none)"
FirstWebEnv == "NCID_1_first"
\* WebEnv values the server may put into a response after the first one
WebEnvs == {FirstWebEnv, "NCID_1_later"}

None == [none |-> TRUE]
NoFile == [exists |-> FALSE, content |-> <<>>]
File(c) == [exists |-> TRUE, content |-> c]
FileNames == {"pmid_list.txt", "entries.txt", "pmc_fulltexts.txt",
              "gene_annotations.txt", "MEDLINE.txt", "aliases.txt",
              "prot_entries.txt"}

NoArgs == [auto |-> FALSE]

Str(s) == [kind |-> "str", val |-> s]
List(l) == [kind |-> "list", val |-> l]
Queries == {List(<<"BRCA1", "BRCA2">>), Str("heart failure")}

\* a local variable that has not been assigned / that holds v
Unbound == [bound |-> FALSE, holds |-> 0]
Bound(v) == [bound |-> TRUE, holds |-> v]

\* a remote request: the function issuing it, the service, the search term
\* or the ids it names, its retstart, the WebEnv it carries, and whether
\* the server answered it (FALSE: HTTP error)
Request(fn, api, db, term, retstart, we, ok) ==
  [fn |-> fn, api |-> api, db |-> db, term |-> term, retstart |-> retstart,
   webenv |-> we, ok |-> ok]

\* give every item of the list the tag
Tagged(l, tag) == [k \in 1..Len(l) |-> [l[k] EXCEPT !.tag = tag]]

\* ------------------------------------------------------- run_pubmed_query
RECURSIVE Join(_, _)
Join(sep, l) ==
  IF l = <<>> THEN ""
  ELSE IF Len(l) = 1 THEN l[1]
  ELSE l[1] \o sep \o Join(sep, Tail(l))

\* lines 52-54: a list query becomes its terms joined with " OR "
FlatQuery(q) == IF q.kind = "list" THEN Join(" OR ", q.val) ELSE q.val

\* the server: the window [retstart, retstart + retmax) of the result list
EsearchIdList(total, retstart) == Slice(Ids(total), retstart, retmax)

\* line 89
EsearchNeedsMore(cnt) == cnt > retmax

\* line 91
EsearchFirstIndex == retmax - 1

\* line 92, the loop condition
EsearchLoopCond(idx, cnt) == idx < cnt + retmax - 1

\* (mutant) the index is left where it is
EsearchSameIndex(idx) == idx

\* line 99
EsearchNextIndex(idx) == idx + retmax

\* (mutant) the WebEnv of each response replaces the one held
EsearchTakeResponseWebEnv(held, fromResponse) == fromResponse

\* lines 93-95: webenv is passed to the request and not reassigned from
\* the response record
EsearchKeepWebEnv(held, fromResponse) == held

\* (mutant) after an HTTP error the loop goes on and repeats the request
RpqRetryAfterError == "rpq_loop"

\* lines 101-104: the except clause prints the error; control goes on to
\* the write of the list
RpqAfterError == "rpq_write"

\* lines 77-84: the initial search; an HTTPError here is outside the try
RpqSearch ==
  /\ pc = "rpq_search"
  /\ \E ok \in BOOLEAN :
       /\ requests' = Append(requests,
            Request("run_pubmed_query", "esearch", "pubmed", FlatQuery(query),
                    0, NoWebEnv, ok))
       /\ IF ok
          THEN /\ pmid_list' = EsearchIdList(srv_count, 0)
               /\ webenv' = FirstWebEnv
               /\ count' = srv_count
               /\ index' = IF EsearchNeedsMore(srv_count)
                           THEN EsearchFirstIndex ELSE index
               /\ pc' = IF EsearchNeedsMore(srv_count)
                        THEN "rpq_loop" ELSE "rpq_write"
          ELSE /\ pc' = "crashed"
               /\ UNCHANGED <<pmid_list, webenv, count, index>>
  /\ query_dir' = TRUE
  /\ UNCHANGED <<fixed, prot, chk, prs, prompts, pm_recs, pmc_ids_trim, multiple_xml,
                 batches, success, caught, fs, ret>>

\* lines 92-99: one pass of the while loop (a page request), or the
\* except clause of line 101 when the request raises HTTPError
RpqPage ==
  /\ pc = "rpq_loop"
  /\ EsearchLoopCond(index, count)
  /\ \E ok \in BOOLEAN, w \in WebEnvs :
       /\ requests' = Append(requests,
            Request("run_pubmed_query", "esearch", "pubmed", FlatQuery(query),
                    index, webenv, ok))
       /\ IF ok
          THEN /\ pmid_list' = Cat(pmid_list, EsearchIdList(srv_count, index))
               /\ webenv' = EsearchKeepWebEnv(webenv, w)
               /\ index' = EsearchNextIndex(index)
               /\ UNCHANGED <<pc, caught>>
          ELSE /\ caught' = TRUE
               /\ pc' = RpqAfterError
               /\ UNCHANGED <<pmid_list, webenv, index>>
  /\ UNCHANGED <<fixed, prot, chk, prs, prompts, query_dir, count, pm_recs, pmc_ids_trim, multiple_xml, batches,
                 success, fs, ret>>

\* line 92 false: the loop ends
RpqLoopEnd ==
  /\ pc = "rpq_loop"
  /\ ~EsearchLoopCond(index, count)
  /\ pc' = "rpq_write"
  /\ UNCHANGED <<fixed, prot, chk, prs, prompts, query_dir, requests, pmid_list, webenv, count, index, pm_recs,
                 pmc_ids_trim, multiple_xml, batches, success, caught, fs, ret>>

\* line 112: what the caller gets (the directory path is a constant here)
RpqReturnValue(pl, we) == [pmid_list |-> pl, webenv |-> we]

\* lines 104-112: write the PMID list file and return
RpqWrite ==
  /\ pc = "rpq_write"
  /\ fs' = [fs EXCEPT !["pmid_list.txt"] = File(pmid_list)]
  /\ ret' = RpqReturnValue(pmid_list, webenv)
  /\ pc' = "rpq_done"
  /\ UNCHANGED <<fixed, prot, chk, prs, prompts, query_dir, requests, pmid_list, webenv, count, index, pm_recs,
                 pmc_ids_trim, multiple_xml, batches, success, caught>>

\* lines 92-99 when no request fails: the list after the loop
RECURSIVE EsearchAll(_, _, _)
EsearchAll(total, idx, acc) ==
  IF EsearchLoopCond(idx, total)
  THEN EsearchAll(total, EsearchNextIndex(idx),
                  Cat(acc, EsearchIdList(total, idx)))
  ELSE acc

\* lines 76-112 when no request fails: what run_pubmed_query returns for a
\* search with the given total
RpqComplete(total) ==
  RpqReturnValue(
    IF EsearchNeedsMore(total)
    THEN EsearchAll(total, EsearchFirstIndex, EsearchIdList(total, 0))
    ELSE EsearchIdList(total, 0),
    FirstWebEnv)

RunPubmedQuery == RpqSearch \/ RpqPage \/ RpqLoopEnd \/ RpqWrite

\* ------------------------------------------------ download_pubmed_entries
\* the server: the MEDLINE records of the window [retstart, retstart+retmax)
\* of the id list; hasPMC says whether the records of this page carry a
\* 'PMC' field
EfetchRecords(ids, retstart, hasPMC) ==
  Tagged(Slice(ids, retstart, retmax), IF hasPMC THEN "PMC" ELSE "noPMC")

\* line 138
EfetchNeedsLoop(cnt) == cnt > retmax

\* line 139, the loop condition
EfetchLoopCond(idx, cnt) == idx < cnt + retmax - 1

\* line 146
EfetchNextIndex(idx) == idx + retmax

\* lines 128-138
DpeStart ==
  /\ pc = "dpe_start"
  /\ count' = ListLen(pmid_list)
  /\ index' = 0
  /\ pm_recs' = <<>>
  /\ caught' = FALSE
  /\ pc' = IF EfetchNeedsLoop(ListLen(pmid_list)) THEN "dpe_loop" ELSE "dpe_single"
  /\ UNCHANGED <<fixed, prot, chk, prs, prompts, query_dir, requests, pmid_list, webenv, pmc_ids_trim,
                 multiple_xml, batches, success, fs, ret>>

\* lines 139-146: one pass of the while loop, or the except clause (153)
DpePage ==
  /\ pc = "dpe_loop"
  /\ EfetchLoopCond(index, count)
  /\ \E ok \in BOOLEAN, hasPMC \in BOOLEAN :
       /\ requests' = Append(requests,
            Request("download_pubmed_entries", "efetch", "pubmed", "",
                    index, webenv, ok))
       /\ IF ok
          THEN /\ pm_recs' = Cat(pm_recs, EfetchRecords(pmid_list, index, hasPMC))
               /\ index' = EfetchNextIndex(index)
               /\ UNCHANGED <<pc, caught>>
          ELSE /\ caught' = TRUE
               /\ pc' = "dpe_write"
               /\ UNCHANGED <<pm_recs, index>>
  /\ UNCHANGED <<fixed, prot, chk, prs, prompts, query_dir, pmid_list, webenv, count, pmc_ids_trim, multiple_xml,
                 batches, success, fs, ret>>

\* line 139 false
DpeLoopEnd ==
  /\ pc = "dpe_loop"
  /\ ~EfetchLoopCond(index, count)
  /\ pc' = "dpe_write"
  /\ UNCHANGED <<fixed, prot, chk, prs, prompts, query_dir, requests, pmid_list, webenv, count, index, pm_recs,
                 pmc_ids_trim, multiple_xml, batches, success, caught, fs, ret>>

\* lines 147-151: at most retmax ids, one request
DpeSingle ==
  /\ pc = "dpe_single"
  /\ \E ok \in BOOLEAN, hasPMC \in BOOLEAN :
       /\ requests' = Append(requests,
            Request("download_pubmed_entries", "efetch", "pubmed", "",
                    index, webenv, ok))
       /\ IF ok
          THEN /\ pm_recs' = EfetchRecords(pmid_list, index, hasPMC)
               /\ UNCHANGED caught
          ELSE /\ caught' = TRUE
               /\ UNCHANGED pm_recs
  /\ pc' = "dpe_write"
  /\ UNCHANGED <<fixed, prot, chk, prs, prompts, query_dir, pmid_list, webenv, count, index, pmc_ids_trim,
                 multiple_xml, batches, success, fs, ret>>

\* lines 160-168: write the entries file and return pm_recs
DpeWrite ==
  /\ pc = "dpe_write"
  /\ fs' = [fs EXCEPT !["entries.txt"] = File(pm_recs)]
  /\ ret' = [pm_recs |-> pm_recs]
  /\ pc' = "dpe_done"
  /\ UNCHANGED <<fixed, prot, chk, prs, prompts, query_dir, requests, pmid_list, webenv, count, index, pm_recs,
                 pmc_ids_trim, multiple_xml, batches, success, caught>>

\* lines 139-146 when no request fails: the records after the loop
RECURSIVE EfetchAll(_, _, _, _)
EfetchAll(ids, idx, acc, hasPMC) ==
  IF EfetchLoopCond(idx, ListLen(ids))
  THEN EfetchAll(ids, EfetchNextIndex(idx),
                 Cat(acc, EfetchRecords(ids, idx, hasPMC)), hasPMC)
  ELSE acc

\* lines 128-168 when no request fails: what download_pubmed_entries
\* returns for the given ids
DpeComplete(ids, hasPMC) ==
  [pm_recs |-> IF EfetchNeedsLoop(ListLen(ids))
               THEN EfetchAll(ids, 0, <<>>, hasPMC)
               ELSE EfetchRecords(ids, 0, hasPMC)]

DownloadPubmedEntries ==
  DpeStart \/ DpePage \/ DpeLoopEnd \/ DpeSingle \/ DpeWrite

\* -------------------------------------------------------- get_remote_docs
\* the server: the MEDLINE text of the window [retstart, retstart +
\* batch_size) of the posted ids
RemoteEfetchText(ids, retstart) ==
  Tagged(Slice(ids, retstart, efetch_batch_size), "medline")

\* line 80, the loop condition
RemoteLoopCond(i, n) == i <= n

\* line 95
RemoteNextIndex(i) == i + efetch_batch_size

\* lines 46-75: create the output file, epost the ids, read WebEnv from the
\* response; an HTTPError here is outside the try
GrdPost ==
  /\ pc = "grd_post"
  /\ fs' = [fs EXCEPT !["MEDLINE.txt"] = File(<<>>)]
  /\ success' = FALSE
  /\ \E ok \in BOOLEAN :
       /\ requests' = Append(requests,
            Request("get_remote_docs", "epost", "pubmed", "", 0, NoWebEnv, ok))
       /\ IF ok
          THEN /\ webenv' = FirstWebEnv
               /\ index' = 0
               /\ pc' = "grd_loop"
          ELSE /\ pc' = "crashed"
               /\ UNCHANGED <<webenv, index>>
  /\ UNCHANGED <<fixed, prot, chk, prs, prompts, query_dir, pmid_list, count, pm_recs, pmc_ids_trim, multiple_xml,
                 batches, caught, ret>>

\* lines 80-95: one pass of the while loop: one efetch, its whole body
\* appended to the file; or the except clause (101) on HTTPError
GrdPage ==
  /\ pc = "grd_loop"
  /\ RemoteLoopCond(index, ListLen(pmid_list))
  /\ \E ok \in BOOLEAN :
       /\ requests' = Append(requests,
            Request("get_remote_docs", "efetch", "pubmed", "", index, webenv, ok))
       /\ IF ok
          THEN /\ fs' = [fs EXCEPT !["MEDLINE.txt"] =
                    File(Cat(@.content, RemoteEfetchText(pmid_list, index)))]
               /\ index' = RemoteNextIndex(index)
               /\ UNCHANGED <<pc, caught>>
          ELSE /\ caught' = TRUE
               /\ pc' = "grd_return"
               /\ UNCHANGED <<fs, index>>
  /\ UNCHANGED <<fixed, prot, chk, prs, prompts, query_dir, pmid_list, webenv, count, pm_recs, pmc_ids_trim,
                 multiple_xml, batches, success, ret>>

\* line 80 false, lines 96-99
GrdLoopEnd ==
  /\ pc = "grd_loop"
  /\ ~RemoteLoopCond(index, ListLen(pmid_list))
  /\ success' = TRUE
  /\ pc' = "grd_return"
  /\ UNCHANGED <<fixed, prot, chk, prs, prompts, query_dir, requests, pmid_list, webenv, count, index, pm_recs,
                 pmc_ids_trim, multiple_xml, batches, caught, fs, ret>>

\* line 109: the caller gets the path of the output file and nothing else
GrdReturnValue(ok) == [outfilepath |-> "MEDLINE.txt"]

\* lines 104-109
GrdReturn ==
  /\ pc = "grd_return"
  /\ ret' = GrdReturnValue(success)
  /\ pc' = "grd_done"
  /\ UNCHANGED <<fixed, prot, chk, prs, prompts, query_dir, requests, pmid_list, webenv, count, index, pm_recs,
                 pmc_ids_trim, multiple_xml, batches, success, caught, fs>>

GetRemoteDocs == GrdPost \/ GrdPage \/ GrdLoopEnd \/ GrdReturn

\* ----------------------------------------------------- XML text and merge
\* A file of XML text is a sequence of lines; a line is a sequence of
\* tokens (pieces of text), and so is a pattern searched for in a line.
\* python's "pattern in line" is: the pattern's tokens occur in the line,
\* next to each other.
Contains(line, pat) ==
  \E k \in 0..(Len(line) - Len(pat)) : SubSeq(line, k + 1, k + Len(pat)) = pat

XmlDecl == <<"<?xml version=\"1.0\" ?>">>

\* what minidom's toprettyxml writes for one fetched document: the
\* declaration, the doctype lines, the root element around the body
PrettyXml(doctype, root, body) ==
  <<XmlDecl>> \o doctype \o << <<"<" \o root \o ">">> >> \o body
              \o << <<"</" \o root \o ">">> >>

\* the text of the ids lo..hi as it appears inside an element
IdText(r) == ToString(r.lo) \o ".." \o ToString(r.hi)

\* the child elements of the root for the items of the list: one line
\* stands for the elements of one run of ids
BodyLines(element, l) == [k \in 1..Len(l) |-> <<"\t", element, IdText(l[k])>>]

PmcDoctype ==
  << <<"<!DOCTYPE ", "pmc-articleset">>,
     <<"  PUBLIC '-//NLM//DTD ARTICLE SET 2.0//EN'">>,
     <<"  'https://dtd.nlm.nih.gov/ncbi/pmc/articleset/nlm-articleset-2.0.dtd'>">> >>

\* the doctype of a document of another version of the DTD
PmcDoctypeOther ==
  << <<"<!DOCTYPE ", "pmc-articleset">>,
     <<"  PUBLIC '-//NLM//DTD ARTICLE SET 3.0//EN'">>,
     <<"  'https://dtd.nlm.nih.gov/ncbi/pmc/articleset/nlm-articleset-3.0.dtd'>">> >>

\* the doctypes the server may send
PmcDoctypes == {PmcDoctype, PmcDoctypeOther}

\* (mutant) the declaration is missing from the list
PmcNoLinesWithoutDecl ==
  { <<"</pmc-articleset>">>,
    <<"<!DOCTYPE ", "pmc-articleset">>,
    <<"  PUBLIC '-//NLM//DTD ARTICLE SET 2.0//EN'">>,
    <<"  'https://dtd.nlm.nih.gov/ncbi/pmc/articleset/nlm-articleset-2.0.dtd'>">> }

\* lines 251-255: the lines the PMC merge drops
PmcNoLines ==
  { <<"</pmc-articleset>">>,
    XmlDecl,
    <<"<!DOCTYPE ", "pmc-articleset">>,
    <<"  PUBLIC '-//NLM//DTD ARTICLE SET 2.0//EN'">>,
    <<"  'https://dtd.nlm.nih.gov/ncbi/pmc/articleset/nlm-articleset-2.0.dtd'>">> }

PtcDoctype ==
  << <<"<!DOCTYPE ", "collection">>,
     <<"  SYSTEM 'BioC.dtd'>">> >>

\* the children every PubTator collection starts with
PtcBoilerplate ==
  << <<"\t", "<source>PubTator</source>">>,
     <<"\t", "<date/>">>,
     <<"\t", "<key>BioC.key</key>">> >>

\* (mutant) a pattern cut short: the tab alone
PtcNoLinesAnyIndented ==
  { <<"</collection>">>,
    XmlDecl,
    <<"<!DOCTYPE ", "collection">>,
    <<"  SYSTEM 'BioC.dtd'>">>,
    <<"\t", "<source>PubTator</source>">>,
    <<"\t">>,
    <<"\t", "<key>BioC.key</key>">> }

\* lines 346-352: the lines the annotation merge drops
PtcNoLines ==
  { <<"</collection>">>,
    XmlDecl,
    <<"<!DOCTYPE ", "collection">>,
    <<"  SYSTEM 'BioC.dtd'>">>,
    <<"\t", "<source>PubTator</source>">>,
    <<"\t", "<date/>">>,
    <<"\t", "<key>BioC.key</key>">> }

\* (mutant) have_header is never set: every opening root tag is kept
RECURSIVE MergeLoopKeepsHeaders(_, _, _, _)
MergeLoopKeepsHeaders(lines, have_header, open, nolines) ==
  IF lines = <<>> THEN <<>>
  ELSE LET line == lines[1]
           rest == Tail(lines)
       IN IF Contains(line, open)
          THEN <<line>> \o MergeLoopKeepsHeaders(rest, have_header, open, nolines)
          ELSE IF \E noline \in nolines : Contains(line, noline)
          THEN MergeLoopKeepsHeaders(rest, have_header, open, nolines)
          ELSE <<line>> \o MergeLoopKeepsHeaders(rest, have_header, open, nolines)

\* lines 245-258 and 340-355: the loop over the lines read back, with
\* have_header carried along
RECURSIVE MergeLoop(_, _, _, _)
MergeLoop(lines, have_header, open, nolines) ==
  IF lines = <<>> THEN <<>>
  ELSE LET line == lines[1]
           rest == Tail(lines)
       IN IF Contains(line, open) /\ ~have_header
          THEN <<line>> \o MergeLoop(rest, TRUE, open, nolines)
          ELSE IF Contains(line, open) /\ have_header
          THEN MergeLoop(rest, have_header, open, nolines)
          ELSE IF \E noline \in nolines : Contains(line, noline)
          THEN MergeLoop(rest, have_header, open, nolines)
          ELSE <<line>> \o MergeLoop(rest, have_header, open, nolines)

\* lines 241-260: the file rewritten from its own lines, the closing tag
\* written last
MergePmc(lines) ==
  MergeLoop(lines, FALSE, <<"<pmc-articleset>">>, PmcNoLines)
    \o << <<"</pmc-articleset>">> >>

\* lines 336-357
MergePtc(lines) ==
  MergeLoop(lines, FALSE, <<"<collection>">>, PtcNoLines)
    \o << <<"</collection>">> >>

\* --------------------------------------------------- download_pmc_entries
\* a record's 'PMC' field is the text "PMC" followed by the number
PmcPrefix == <<"P", "M", "C">>

\* lines 195-198: the 'PMC' field of every record that has one
PmcIds(recs) ==
  Canon(Tagged(SelectSeq(recs, LAMBDA r : r.tag = "PMC"), PmcPrefix))

\* line 205: id[3:] for every id
PmcIdsTrim(ids) ==
  [k \in 1..Len(ids) |->
     [ids[k] EXCEPT !.tag = SubSeq(@, 4, Len(@))]]

\* line 213
PmcNeedsLoop(cnt) == cnt > retmax

\* line 215, the loop condition
PmcLoopCond(idx, cnt) == idx < cnt + retmax - 1

\* line 224
PmcNextIndex(idx) == idx + retmax

\* the server: the full texts of the window of the id list, pretty-printed
\* by lines 217-218 (228-229)
PmcFragment(ids, retstart) ==
  PrettyXml(srv_doctype, "pmc-articleset",
            BodyLines("<article>", Slice(ids, retstart, retmax)))

\* the server answers a retstart at or beyond the number of ids with
\* HTTP 400 (comment of lines 156-158)
PmcServerOk(idx, cnt) == IF idx < cnt THEN BOOLEAN ELSE {FALSE}

\* lines 195-214, 226
DpmStart ==
  /\ pc = "dpm_start"
  /\ pmc_ids_trim' = PmcIdsTrim(PmcIds(pm_recs))
  /\ count' = ListLen(PmcIds(pm_recs))
  /\ index' = 0
  /\ pm_recs' = <<>>
  /\ caught' = FALSE
  /\ multiple_xml' = PmcNeedsLoop(ListLen(PmcIds(pm_recs)))
  /\ pc' = IF PmcNeedsLoop(ListLen(PmcIds(pm_recs)))
           THEN "dpm_loop" ELSE "dpm_single"
  /\ UNCHANGED <<fixed, prot, chk, prs, prompts, query_dir, requests, pmid_list, webenv, batches, success, fs, ret>>

\* lines 215-224: one pass of the while loop (the fragment appended to the
\* file), or the except clause (235)
DpmPage ==
  /\ pc = "dpm_loop"
  /\ PmcLoopCond(index, count)
  /\ \E ok \in PmcServerOk(index, count) :
       /\ requests' = Append(requests,
            Request("download_pmc_entries", "efetch", "pmc", "", index, webenv, ok))
       /\ IF ok
          THEN /\ fs' = [fs EXCEPT !["pmc_fulltexts.txt"] =
                    File(@.content \o PmcFragment(pmc_ids_trim, index))]
               /\ index' = PmcNextIndex(index)
               /\ UNCHANGED <<pc, caught>>
          ELSE /\ caught' = TRUE
               /\ pc' = "dpm_merge"
               /\ UNCHANGED <<fs, index>>
  /\ UNCHANGED <<fixed, prot, chk, prs, prompts, query_dir, pmid_list, webenv, count, pm_recs, pmc_ids_trim,
                 multiple_xml, batches, success, ret>>

\* line 215 false
DpmLoopEnd ==
  /\ pc = "dpm_loop"
  /\ ~PmcLoopCond(index, count)
  /\ pc' = "dpm_merge"
  /\ UNCHANGED <<fixed, prot, chk, prs, prompts, query_dir, requests, pmid_list, webenv, count, index, pm_recs,
                 pmc_ids_trim, multiple_xml, batches, success, caught, fs, ret>>

\* lines 227-233: at most retmax ids, one request, the file written anew
DpmSingle ==
  /\ pc = "dpm_single"
  /\ \E ok \in PmcServerOk(index, count) :
       /\ requests' = Append(requests,
            Request("download_pmc_entries", "efetch", "pmc", "", index, webenv, ok))
       /\ IF ok
          THEN /\ fs' = [fs EXCEPT !["pmc_fulltexts.txt"] =
                    File(PmcFragment(pmc_ids_trim, index))]
               /\ UNCHANGED caught
          ELSE /\ caught' = TRUE
               /\ UNCHANGED fs
  /\ pc' = "dpm_merge"
  /\ UNCHANGED <<fixed, prot, chk, prs, prompts, query_dir, pmid_list, webenv, count, index, pm_recs, pmc_ids_trim,
                 multiple_xml, batches, success, ret>>

\* lines 239-260: the merge, only when multiple_xml; open(.., "r+") of a
\* file that was never written raises
DpmMerge ==
  /\ pc = "dpm_merge"
  /\ IF multiple_xml
     THEN IF fs["pmc_fulltexts.txt"].exists
          THEN /\ fs' = [fs EXCEPT !["pmc_fulltexts.txt"] = File(MergePmc(@.content))]
               /\ pc' = "dpm_check"
          ELSE /\ pc' = "crashed"
               /\ UNCHANGED fs
     ELSE /\ pc' = "dpm_check"
          /\ UNCHANGED fs
  /\ UNCHANGED <<fixed, prot, chk, prs, prompts, query_dir, requests, pmid_list, webenv, count, index, pm_recs,
                 pmc_ids_trim, multiple_xml, batches, success, caught, ret>>

\* what may stand ahead of the root element of a document: nothing, the
\* declaration, a whole doctype, or both
XmlPrologs == {<<>>, <<XmlDecl>>} \cup PmcDoctypes
                \cup {<<XmlDecl>> \o d : d \in PmcDoctypes}

\* the text is one document: a prolog, the root's opening tag, lines that
\* open no second root and hold neither declaration nor doctype, and the
\* root's closing tag
XmlParses(lines, root) ==
  \E k \in 1..(Len(lines) - 1) :
    /\ SubSeq(lines, 1, k - 1) \in XmlPrologs
    /\ lines[k] = <<"<" \o root \o ">">>
    /\ lines[Len(lines)] = <<"</" \o root \o ">">>
    /\ \A j \in (k + 1)..(Len(lines) - 1) :
         /\ ~Contains(lines[j], <<"<" \o root \o ">">>)
         /\ ~Contains(lines[j], <<"</" \o root \o ">">>)
         /\ ~Contains(lines[j], XmlDecl)
         /\ ~Contains(lines[j], <<"<!DOCTYPE ">>)

\* line 271: what lxml's ET.parse raises on the file
PmcParseRaises(file) ==
  IF ~file.exists THEN "OSError"
  ELSE IF XmlParses(file.content, "pmc-articleset") THEN "(nothing)"
  ELSE "lxml.etree.XMLSyntaxError"

\* (mutant) the except clause names the exception lxml raises
PmcCaughtWithLxml == {"xml.etree.ElementTree.ParseError",
                      "lxml.etree.XMLSyntaxError"}

\* line 281: the exceptions the except clause of the check catches
PmcCaught == {"xml.etree.ElementTree.ParseError"}

\* lines 264-286 (convert_option not set): the file is parsed with lxml
\* and its articles are counted (the counts are printed only); an
\* exception the except clause does not name ends the run
DpmCheck ==
  /\ pc = "dpm_check"
  /\ IF PmcParseRaises(fs["pmc_fulltexts.txt"]) \in {"(nothing)"} \cup PmcCaught
     THEN /\ pc' = "dpm_done"
          /\ ret' = None
     ELSE /\ pc' = "crashed"
          /\ UNCHANGED ret
  /\ UNCHANGED <<fixed, prot, chk, prs, prompts, query_dir, requests, pmid_list, webenv, count, index, pm_recs,
                 pmc_ids_trim, multiple_xml, batches, success, caught, fs>>

DownloadPmcEntries ==
  DpmStart \/ DpmPage \/ DpmLoopEnd \/ DpmSingle \/ DpmMerge \/ DpmCheck

\* ------------------------------------------ download_ptc_gene_annotations
\* phlp.batch_this(l, n): the contiguous chunks of at most n items
RECURSIVE BatchThis(_, _)
BatchThis(l, n) ==
  IF l = <<>> THEN <<>>
  ELSE <<Slice(l, 0, n)>> \o BatchThis(Slice(l, n, ListLen(l)), n)

\* the server: the BioC collection for the PMIDs of one batch,
\* pretty-printed by lines 321-322
PtcFragment(batch) ==
  PrettyXml(PtcDoctype, "collection",
            PtcBoilerplate \o BodyLines("<document>", batch))

\* line 331
PtcMultiple(cnt) == ptc_batch_size < cnt

\* lines 313-318
DpgStart ==
  /\ pc = "dpg_start"
  /\ count' = ListLen(pmid_list)
  /\ batches' = BatchThis(pmid_list, ptc_batch_size)
  /\ pc' = "dpg_loop"
  /\ UNCHANGED <<fixed, prot, chk, prs, prompts, query_dir, requests, pmid_list, webenv, index, pm_recs,
                 pmc_ids_trim, multiple_xml, success, caught, fs, ret>>

\* lines 318-327: one batch: the request, the fragment appended to the
\* file; nothing catches a failed request here
DpgBatch ==
  /\ pc = "dpg_loop"
  /\ batches # <<>>
  /\ \E ok \in BOOLEAN :
       /\ requests' = Append(requests,
            Request("download_ptc_gene_annotations", "export", "pubtator",
                    batches[1], 0, NoWebEnv, ok))
       /\ IF ok
          THEN /\ fs' = [fs EXCEPT !["gene_annotations.txt"] =
                    File(@.content \o PtcFragment(batches[1]))]
               /\ batches' = Tail(batches)
               /\ UNCHANGED pc
          ELSE /\ pc' = "crashed"
               /\ UNCHANGED <<fs, batches>>
  /\ UNCHANGED <<fixed, prot, chk, prs, prompts, query_dir, pmid_list, webenv, count, index, pm_recs, pmc_ids_trim,
                 multiple_xml, success, caught, ret>>

\* lines 328-359: after the last batch, the merge when batch_size < count
DpgMerge ==
  /\ pc = "dpg_loop"
  /\ batches = <<>>
  /\ multiple_xml' = PtcMultiple(count)
  /\ fs' = IF PtcMultiple(count)
           THEN [fs EXCEPT !["gene_annotations.txt"] = File(MergePtc(@.content))]
           ELSE fs
  /\ ret' = None
  /\ pc' = "dpg_done"
  /\ UNCHANGED <<fixed, prot, chk, prs, prompts, query_dir, requests, pmid_list, webenv, count, index, pm_recs,
                 pmc_ids_trim, batches, success, caught>>

DownloadPtcGeneAnnotations == DpgStart \/ DpgBatch \/ DpgMerge

\* ----------------------------------------------- download_uniprot_entries
\* A piece of text is the sequence of its characters.
\* "P12345"
P12345 ==
  <<"P", "1", "2", "3", "4", "5">>

\* "Q99999"
Q99999 ==
  <<"Q", "9", "9", "9", "9", "9">>

\* "BRCA1_HUMAN"
BRCA1_HUMAN ==
  <<"B", "R", "C", "A", "1", "_", "H", "U", "M", "A", "N">>

\* "Breast cancer type 1 susceptibility protein"
BreastCancerProtein ==
  <<"B", "r", "e", "a", "s", "t", " ", "c", "a", "n", "c", "e", "r", " ",
    "t", "y", "p", "e", " ", "1", " ", "s", "u", "s", "c", "e", "p", "t",
    "i", "b", "i", "l", "i", "t", "y", " ", "p", "r", "o", "t", "e", "i",
    "n">>

\* "RING finger protein 53"
RingFingerProtein ==
  <<"R", "I", "N", "G", " ", "f", "i", "n", "g", "e", "r", " ", "p", "r",
    "o", "t", "e", "i", "n", " ", "5", "3">>

\* "RNF53"
RNF53 ==
  <<"R", "N", "F", "5", "3">>

\* "BRCA1"
BRCA1 ==
  <<"B", "R", "C", "A", "1">>

\* "Brca1"
Brca1 ==
  <<"B", "r", "c", "a", "1">>

\* "Uncharacterized protein"
UncharacterizedProtein ==
  <<"U", "n", "c", "h", "a", "r", "a", "c", "t", "e", "r", "i", "z", "e",
    "d", " ", "p", "r", "o", "t", "e", "i", "n">>

\* "uncharacterized protein"
UncharacterizedLower ==
  <<"u", "n", "c", "h", "a", "r", "a", "c", "t", "e", "r", "i", "z", "e",
    "d", " ", "p", "r", "o", "t", "e", "i", "n">>


\* the values xmlschema's to_dict gives an element with text: the bare
\* string, or, when the element has attributes, a dict with the text under
\* '$'; Absent stands for a key the dict of the parent does not have
Dict(s) == [kind |-> "dict", val |-> s]
Absent == [kind |-> "absent", val |-> <<>>]

AsciiUpper ==
  <<"A", "B", "C", "D", "E", "F", "G", "H", "I", "J", "K", "L", "M", "N",
    "O", "P", "Q", "R", "S", "T", "U", "V", "W", "X", "Y", "Z">>
AsciiLower ==
  <<"a", "b", "c", "d", "e", "f", "g", "h", "i", "j", "k", "l", "m", "n",
    "o", "p", "q", "r", "s", "t", "u", "v", "w", "x", "y", "z">>

\* str.lower
Lower(s) ==
  [k \in 1..Len(s) |->
     IF \E i \in 1..26 : AsciiUpper[i] = s[k]
     THEN AsciiLower[CHOOSE i \in 1..26 : AsciiUpper[i] = s[k]]
     ELSE s[k]]

\* str.replace(a, b) for single characters
Replace(s, a, b) == [k \in 1..Len(s) |-> IF s[k] = a THEN b ELSE s[k]]

\* sep.join(l) for a list of texts
RECURSIVE JoinText(_, _)
JoinText(sep, l) ==
  IF l = <<>> THEN <<>>
  ELSE IF Len(l) = 1 THEN l[1]
  ELSE l[1] \o <<sep>> \o JoinText(sep, Tail(l))

\* what a piece of the normalization comes to: the aliases it yields, or
\* the exception it raises
Yields(l) == [raised |-> "(nothing)", aliases |-> l]
Raises(exception) == [raised |-> exception, aliases |-> <<>>]

\* (mutant) the submitted name is tried first
PrimaryNameSubmittedFirst(protein) ==
  IF protein.submittedName # <<>> /\ protein.submittedName[1].fullName.kind = "dict"
  THEN Yields(<<Str(protein.submittedName[1].fullName.val)>>)
  ELSE IF protein.recommendedName.fullName.kind = "absent"
  THEN Raises("KeyError")
  ELSE Yields(<<Str(protein.recommendedName.fullName.val)>>)

\* lines 504-509: the recommended full name; KeyError (no recommended
\* name) leads to the first submitted name, whose handler is guarded by
\* nothing; TypeError (the full name is a bare string) leads to the bare
\* string of the recommended name
PrimaryName(protein) ==
  LET rec == protein.recommendedName.fullName
      sub == protein.submittedName
  IN IF rec.kind = "dict" THEN Yields(<<Str(rec.val)>>)
     ELSE IF rec.kind = "str" THEN Yields(<<rec>>)
     ELSE IF sub = <<>> THEN Raises("KeyError")
     ELSE IF sub[1].fullName.kind = "dict" THEN Yields(<<Str(sub[1].fullName.val)>>)
     ELSE Raises("TypeError")

\* lines 511-521: of every alternative name the full name, or else the
\* first short name as it is (a string or a dict); the KeyError of a name
\* with neither is caught outside the loop and ends it
RECURSIVE AlternativeNames(_)
AlternativeNames(alts) ==
  IF alts = <<>> THEN <<>>
  ELSE LET pair == alts[1]
       IN IF pair.fullName.kind = "dict"
          THEN <<Str(pair.fullName.val)>> \o AlternativeNames(Tail(alts))
          ELSE IF pair.fullName.kind = "str"
          THEN <<pair.fullName>> \o AlternativeNames(Tail(alts))
          ELSE IF pair.shortName # <<>>
          THEN <<pair.shortName[1]>> \o AlternativeNames(Tail(alts))
          ELSE <<>>

\* lines 523-527: the names of the first gene element
GeneNames(gene) ==
  IF gene = <<>> THEN <<>>
  ELSE [k \in 1..Len(gene[1].name) |-> Str(gene[1].name[k].val)]

\* lines 529-530: list.remove takes out the first occurrence
RECURSIVE Remove(_, _)
Remove(l, x) ==
  IF l = <<>> THEN <<>>
  ELSE IF l[1] = x THEN Tail(l)
  ELSE <<l[1]>> \o Remove(Tail(l), x)

\* line 532: list(dict.fromkeys(l)), the first occurrence of each kept
RECURSIVE Unique(_)
Unique(l) ==
  IF l = <<>> THEN <<>>
  ELSE LET init == Unique(SubSeq(l, 1, Len(l) - 1))
           last == l[Len(l)]
       IN IF \E k \in 1..Len(init) : init[k] = last
          THEN init ELSE Append(init, last)

\* (mutant) the spaces are left in
OutlineWithSpaces(l) ==
  Lower(JoinText("|", [k \in 1..Len(l) |-> l[k].val]))

\* line 534
Outline(l) ==
  Lower(Replace(JoinText("|", [k \in 1..Len(l) |-> l[k].val]), " ", "_"))

\* lines 499-533 for one entry: the alias list as the code holds it when it
\* comes to writing the line, or the exception that ends the run and the
\* list as it stands then; a dict among the aliases cannot be a dict key
EntryAliases(e) ==
  LET named == e.accession \o <<e.name[1]>>
      primary == PrimaryName(e.protein)
      all == named \o primary.aliases \o AlternativeNames(e.protein.alternativeName)
               \o GeneNames(e.gene)
      kept == Remove(all, Str(UncharacterizedProtein))
  IN IF primary.raised # "(nothing)"
     THEN [raised |-> primary.raised, aliases |-> named]
     ELSE IF \E k \in 1..Len(kept) : kept[k].kind # "str"
     THEN [raised |-> "TypeError", aliases |-> kept]
     ELSE Yields(Unique(kept))

\* lines 496-535: one pass of the loop over the entries; the file is open
\* for appending, and what was written stays when an exception ends the run
DueEntry ==
  /\ pc = "due_loop"
  /\ entrycount < Len(content)
  /\ entrycount' = entrycount + 1
  /\ LET normalized == EntryAliases(content[entrycount + 1])
     IN /\ aliases' = normalized.aliases
        /\ IF normalized.raised = "(nothing)"
           THEN /\ fs' = [fs EXCEPT !["aliases.txt"] =
                     File(@.content \o <<Outline(normalized.aliases)>>)]
                /\ pc' = pc
           ELSE /\ fs' = [fs EXCEPT !["aliases.txt"] = File(@.content)]
                /\ pc' = "crashed"
  /\ UNCHANGED <<fixed, xml_paths, comp_count, chk, prs, prompts, query_dir,
                 requests, pmid_list, webenv, count, index, pm_recs,
                 pmc_ids_trim, multiple_xml, batches, success, caught, ret>>

\* lines 537-539: the entries of one file are gone through; the function
\* returns after the last file
DueLoopEnd ==
  /\ pc = "due_loop"
  /\ entrycount = Len(content)
  /\ comp_count' = comp_count + 1
  /\ pc' = IF comp_count < Len(xml_paths) THEN "due_parse" ELSE "due_done"
  /\ fs' = [fs EXCEPT !["aliases.txt"] = File(@.content)]
  /\ ret' = None
  /\ UNCHANGED <<fixed, entrycount, aliases, xml_paths, chk, prs, prompts,
                 query_dir, requests, pmid_list, webenv, count, index, pm_recs,
                 pmc_ids_trim, multiple_xml, batches, success, caught>>

DownloadUniprotEntries == DueEntry \/ DueLoopEnd

\* line 376
uniprot_batch_size == 1000

\* the modes main calls the function in (protexam.py lines 128, 137, 142)
Modes == {"full", "alias", "alias_only"}

\* lines 393, 403: the modes that retrieve the entries
Retrieves(m) == m \in {"full", "alias"}

\* lines 387-390
ProteinsFn(m) == IF m = "full" THEN "prot_entries.txt" ELSE "aliases.txt"

\* (mutant) one batch holding every accession
ProteinBatchesInOne(idlist) == BatchThis(idlist, ListLen(idlist))

\* line 415
ProteinBatches(idlist) == BatchThis(idlist, uniprot_batch_size)

\* line 481: python's str(entry), the text of the dict
StrEntry(e) == [str |-> e]

\* lines 376-413: the query directory made, the schema fetched from
\* uniprot.org (nothing catches a failure), and in the retrieving modes
\* the batches set up; mode "alias_only" goes past the block of line 403
DueStart ==
  /\ pc = "due_start"
  /\ query_dir' = TRUE
  /\ xml_paths' = <<>>
  /\ \E ok \in BOOLEAN :
       /\ requests' = Append(requests,
            Request("download_uniprot_entries", "XMLSchema", "uniprot.xsd",
                    <<>>, 0, NoWebEnv, ok))
       /\ IF ~ok
          THEN /\ pc' = "crashed"
               /\ UNCHANGED <<count, batches>>
          ELSE /\ pc' = "due_batches"
               /\ IF Retrieves(mode)
                  THEN /\ count' = ListLen(pmid_list)
                       /\ batches' = ProteinBatches(pmid_list)
                  ELSE UNCHANGED <<count, batches>>
  /\ UNCHANGED <<fixed, entrycount, aliases, comp_count, chk, prs, prompts,
                 pmid_list, webenv, index, pm_recs, pmc_ids_trim, multiple_xml,
                 success, caught, fs, ret>>

\* lines 415-465: one batch: the request, the entries received written to
\* the batch's own file prot_entries_<path_i>.xml (path_i is the number of
\* paths so far; the XML text of that file is not kept, its entries are
\* content), the path appended; nothing catches a failed request
DueBatch ==
  /\ pc = "due_batches"
  /\ batches # <<>>
  /\ \E ok \in BOOLEAN :
       /\ requests' = Append(requests,
            Request("download_uniprot_entries", "uploadlists", "uniprot",
                    batches[1], 0, NoWebEnv, ok))
       /\ IF ok
          THEN /\ xml_paths' = Append(xml_paths, Len(xml_paths))
               /\ batches' = Tail(batches)
               /\ UNCHANGED pc
          ELSE /\ pc' = "crashed"
               /\ UNCHANGED <<xml_paths, batches>>
  /\ UNCHANGED <<fixed, entrycount, aliases, comp_count, chk, prs, prompts,
                 query_dir, pmid_list, webenv, count, index, pm_recs,
                 pmc_ids_trim, multiple_xml, success, caught, fs, ret>>

\* lines 467, 471, 489: pbar.close() stands after the block of line 403,
\* where alone pbar is assigned: in mode "alias_only" the name is unbound
\* and the call raises UnboundLocalError
DuePbarClose ==
  /\ pc = "due_batches"
  /\ batches = <<>>
  /\ IF Retrieves(mode)
     THEN /\ pc' = "due_parse"
          /\ comp_count' = 1
     ELSE /\ pc' = "crashed"
          /\ UNCHANGED comp_count
  /\ UNCHANGED <<fixed, entrycount, aliases, xml_paths, chk, prs, prompts,
                 query_dir, requests, pmid_list, webenv, count, index, pm_recs,
                 pmc_ids_trim, multiple_xml, batches, success, caught, fs, ret>>

\* the lines the loop of lines 479-481 writes for one file
FullLines == [k \in 1..Len(content) |-> StrEntry(content[k])]

RECURSIVE Times(_, _)
Times(lines, n) == IF n = 0 THEN <<>> ELSE lines \o Times(lines, n - 1)

\* lines 469-485, mode "full": every file parsed, its entries written
DueFull ==
  /\ pc = "due_parse"
  /\ mode = "full"
  /\ fs' = IF xml_paths = <<>> THEN fs
           ELSE [fs EXCEPT ![ProteinsFn(mode)] =
                   File(@.content \o Times(FullLines, Len(xml_paths)))]
  /\ entrycount' = IF xml_paths = <<>> THEN entrycount ELSE Len(content)
  /\ comp_count' = comp_count + Len(xml_paths)
  /\ pc' = "due_done"
  /\ ret' = None
  /\ UNCHANGED <<fixed, aliases, xml_paths, chk, prs, prompts, query_dir,
                 requests, pmid_list, webenv, count, index, pm_recs,
                 pmc_ids_trim, multiple_xml, batches, success, caught>>

\* lines 487-496: the next file parsed, the output file opened
DueNextFile ==
  /\ pc = "due_parse"
  /\ mode # "full"
  /\ comp_count <= Len(xml_paths)
  /\ entrycount' = 0
  /\ fs' = [fs EXCEPT ![ProteinsFn(mode)] = File(@.content)]
  /\ pc' = "due_loop"
  /\ UNCHANGED <<fixed, aliases, xml_paths, comp_count, chk, prs, prompts,
                 query_dir, requests, pmid_list, webenv, count, index, pm_recs,
                 pmc_ids_trim, multiple_xml, batches, success, caught, ret>>

\* lines 487-490, 539: there is no file to parse
DueNoFile ==
  /\ pc = "due_parse"
  /\ mode # "full"
  /\ comp_count > Len(xml_paths)
  /\ pc' = "due_done"
  /\ ret' = None
  /\ UNCHANGED <<fixed, prot, chk, prs, prompts, query_dir, requests,
                 pmid_list, webenv, count, index, pm_recs, pmc_ids_trim,
                 multiple_xml, batches, success, caught, fs>>

\* the function from its first line
DownloadUniprotEntriesWhole ==
  \/ DueStart
  \/ DueBatch
  \/ DuePbarClose
  \/ DueFull
  \/ DueNextFile
  \/ DueNoFile
  \/ DueEntry
  \/ DueLoopEnd

\* ------------------------------------------------------------------- main
\* a run without --query and without --query_file
NoQuery == [kind |-> "none", val |-> ""]

\* line 157 (166): main keeps the WebEnv that run_pubmed_query returned
MainWebEnv(r) == r.webenv

\* (mutant) have_query is set whatever the options are
MainHaveQueryAlways(q) == TRUE

\* lines 115, 154-155, 160-161: have_query
MainHaveQuery(q) == q.kind # "none"

\* a question put to the user (or answered by --auto) and its answer
Prompt(question, response) == [question |-> question, response |-> response]

\* lines 184-189 (198-203): without --auto the user answers, with it the
\* answer is yes
Answers(auto) == IF auto THEN {TRUE} ELSE BOOLEAN

\* (mutant) the question is never put
MainAskNothing(asked, question, response) == asked

\* lines 183-189 (197-203): the question is put and answered
MainAsk(asked, question, response) == Append(asked, Prompt(question, response))

\* (mutant) the answer is not looked at
MainIgnoresAnswer(response, stage) == stage

\* lines 186-187 (200-201): "OK, exiting..." unless the answer is yes
MainAfterPrompt(response, stage) == IF response THEN stage ELSE "exit_declined"

\* lines 154-172: --query or --query_file starts the search; with neither
\* the run ends with "No query provided"
MainStart ==
  /\ pc = "main_start"
  /\ pc' = IF MainHaveQuery(query) THEN "rpq_search" ELSE "exit_no_query"
  /\ UNCHANGED <<fixed, prot, chk, prs, prompts, query_dir, requests, pmid_list, webenv, count, index, pm_recs,
                 pmc_ids_trim, multiple_xml, batches, success, caught, fs, ret>>

\* lines 157-158 (166-167): the search has returned; the log is written
MainSearched ==
  /\ entry = "main"
  /\ pc = "rpq_done"
  /\ pmid_list' = ret.pmid_list
  /\ webenv' = MainWebEnv(ret)
  /\ pc' = "main_prompt_download"
  /\ UNCHANGED <<fixed, prot, chk, prs, prompts, query_dir, requests, count, index, pm_recs, pmc_ids_trim,
                 multiple_xml, batches, success, caught, fs, ret>>

\* lines 183-191: "Continue with document download?"; --auto answers yes
MainPromptDownload ==
  /\ pc = "main_prompt_download"
  /\ \E response \in Answers(args.auto) :
       /\ prompts' = MainAsk(prompts, "document download", response)
       /\ pc' = MainAfterPrompt(response, "dpe_start")
  /\ UNCHANGED <<fixed, prot, chk, prs, query_dir, requests, pmid_list, webenv, count, index, pm_recs,
                 pmc_ids_trim, multiple_xml, batches, success, caught, fs, ret>>

\* lines 191-192: recs goes from download_pubmed_entries to
\* download_pmc_entries, with the same webenv
MainDownloaded ==
  /\ entry = "main"
  /\ pc = "dpe_done"
  /\ pm_recs' = ret.pm_recs
  /\ pc' = "dpm_start"
  /\ UNCHANGED <<fixed, prot, chk, prs, prompts, query_dir, requests, pmid_list, webenv, count, index,
                 pmc_ids_trim, multiple_xml, batches, success, caught, fs, ret>>

\* lines 194-205: "Continue with annotation download?"; --auto answers yes
MainPromptAnnotations ==
  /\ entry = "main"
  /\ pc = "dpm_done"
  /\ \E response \in Answers(args.auto) :
       /\ prompts' = MainAsk(prompts, "annotation download", response)
       /\ pc' = MainAfterPrompt(response, "dpg_start")
  /\ UNCHANGED <<fixed, prot, chk, prs, query_dir, requests, pmid_list, webenv, count, index, pm_recs,
                 pmc_ids_trim, multiple_xml, batches, success, caught, fs, ret>>

\* line 207
MainDone ==
  /\ entry = "main"
  /\ pc = "dpg_done"
  /\ pc' = "main_done"
  /\ UNCHANGED <<fixed, prot, chk, prs, prompts, query_dir, requests, pmid_list, webenv, count, index, pm_recs,
                 pmc_ids_trim, multiple_xml, batches, success, caught, fs, ret>>

Main ==
  \/ MainStart
  \/ MainSearched
  \/ MainPromptDownload
  \/ MainDownloaded
  \/ MainPromptAnnotations
  \/ MainDone

\* ---------------------------------------------------------- specification
\* the run does not enter download_uniprot_entries
NoProteins ==
  /\ mode = ""
  /\ xml_paths = <<>>
  /\ comp_count = 0

\* the run does not come to the loop of the full-text check
NoArticles ==
  /\ articles = <<>>
  /\ checked = 0
  /\ pmid = Unbound
  /\ pub_ids = <<>>
  /\ fulldoc_ids = <<>>

\* the run does not enter parse_docs
NoDocs ==
  /\ doc_file_index = [medline |-> <<>>, raw |-> <<>>]
  /\ doc_id = 0
  /\ newrecords = <<>>

InitCommon ==
  /\ args = NoArgs
  /\ NoProteins
  /\ NoArticles
  /\ NoDocs
  /\ requests = <<>>
  /\ caught = FALSE
  /\ fs = [f \in FileNames |-> NoFile]
  /\ ret = None
  /\ index = 0
  /\ count = 0
  /\ pm_recs = <<>>
  /\ pmc_ids_trim = <<>>
  /\ multiple_xml = FALSE
  /\ batches = <<>>
  /\ success = FALSE
  /\ srv_doctype = PmcDoctype
  /\ content = <<>>
  /\ entrycount = 0
  /\ aliases = <<>>
  /\ prompts = <<>>

\* the run starts in run_pubmed_query(query)
InitQuery ==
  /\ entry = "run_pubmed_query"
  /\ pc = "rpq_search"
  /\ query \in Queries
  /\ srv_count \in 0..MaxCount
  /\ pmid_list = <<>>
  /\ webenv = NoWebEnv
  /\ query_dir = FALSE
  /\ InitCommon

\* the run starts in download_pubmed_entries(pmid_list, dir, webenv) with
\* the PMIDs 1..n of an earlier search
InitAbstracts ==
  /\ entry = "download_pubmed_entries"
  /\ pc = "dpe_start"
  /\ query = Str("")
  /\ srv_count \in 0..MaxCount
  /\ pmid_list = Ids(srv_count)
  /\ webenv = FirstWebEnv
  /\ query_dir = TRUE
  /\ InitCommon

\* the run starts in get_remote_docs(pmids) with the PMIDs 1..n
InitRemote ==
  /\ entry = "get_remote_docs"
  /\ pc = "grd_post"
  /\ query = Str("")
  /\ srv_count \in 0..MaxCount
  /\ pmid_list = Ids(srv_count)
  /\ webenv = NoWebEnv
  /\ query_dir = TRUE
  /\ InitCommon

\* the run starts in download_pmc_entries(pm_recs, dir, webenv): n records
\* with a 'PMC' field, then m without
InitPmc ==
  /\ entry = "download_pmc_entries"
  /\ pc = "dpm_start"
  /\ query = Str("")
  /\ srv_count \in 0..MaxCount
  /\ pmid_list = <<>>
  /\ webenv = FirstWebEnv
  /\ \E m \in 0..MaxNoPmc :
       /\ args = NoArgs
       /\ requests = <<>>
       /\ caught = FALSE
       /\ fs = [f \in FileNames |-> NoFile]
       /\ ret = None
       /\ index = 0
       /\ count = 0
       /\ pm_recs = Cat(Tagged(Ids(srv_count), "PMC"),
                        IF m = 0 THEN <<>>
                        ELSE <<Run(srv_count + 1, srv_count + m, "noPMC")>>)
       /\ pmc_ids_trim = <<>>
       /\ multiple_xml = FALSE
       /\ batches = <<>>
       /\ success = FALSE
       /\ srv_doctype \in PmcDoctypes
       /\ content = <<>>
       /\ entrycount = 0
       /\ aliases = <<>>
       /\ prompts = <<>>
       /\ query_dir = TRUE
       /\ NoProteins
       /\ NoArticles
       /\ NoDocs

\* the run starts in download_ptc_gene_annotations(idlist, dir) with the
\* PMIDs 1..n
InitPtc ==
  /\ entry = "download_ptc_gene_annotations"
  /\ pc = "dpg_start"
  /\ query = Str("")
  /\ srv_count \in 0..MaxPtcCount
  /\ pmid_list = Ids(srv_count)
  /\ webenv = NoWebEnv
  /\ query_dir = TRUE
  /\ InitCommon

\* the totals the search reports in the runs of main
MainCounts == {p * retmax + d : p \in 0..MaxMainPages, d \in 0..1}

\* the run starts in main()
InitMain ==
  /\ entry = "main"
  /\ pc = "main_start"
  /\ query \in Queries \cup {NoQuery}
  /\ srv_count \in MainCounts
  /\ pmid_list = <<>>
  /\ webenv = NoWebEnv
  /\ \E auto \in BOOLEAN :
       /\ args = [auto |-> auto]
       /\ requests = <<>>
       /\ caught = FALSE
       /\ fs = [f \in FileNames |-> NoFile]
       /\ ret = None
       /\ index = 0
       /\ count = 0
       /\ pm_recs = <<>>
       /\ pmc_ids_trim = <<>>
       /\ multiple_xml = FALSE
       /\ batches = <<>>
       /\ success = FALSE
       /\ srv_doctype \in PmcDoctypes
       /\ content = <<>>
       /\ entrycount = 0
       /\ aliases = <<>>
       /\ prompts = <<>>
       /\ query_dir = FALSE
       /\ NoProteins
       /\ NoArticles
       /\ NoDocs

Init ==
  \/ InitQuery
  \/ InitAbstracts
  \/ InitRemote
  \/ InitPmc
  \/ InitPtc
  \/ InitMain

Next ==
  \/ RunPubmedQuery
  \/ DownloadPubmedEntries
  \/ GetRemoteDocs
  \/ DownloadPmcEntries
  \/ DownloadPtcGeneAnnotations
  \/ Main

Spec == Init /\ [][Next]_vars

\* ------------------------------------------- the entries given to the loop
\* all sequences over S of length at most n
SeqsUpTo(S, n) == UNION {[1..k -> S] : k \in 0..n}

\* an alternativeName element: its fullName (or Absent), its shortNames
AlternativeName(full, short) == [fullName |-> full, shortName |-> short]

AlternativeNameItems ==
  { AlternativeName(Dict(UncharacterizedProtein), <<>>),
    AlternativeName(Str(BreastCancerProtein), <<Str(RingFingerProtein)>>),
    AlternativeName(Absent, <<Str(RingFingerProtein), Str(RNF53)>>),
    AlternativeName(Absent, <<Dict(RingFingerProtein)>>),
    AlternativeName(Absent, <<>>) }

\* a gene element: its name elements (each has attributes)
Gene(names) == [name |-> [k \in 1..Len(names) |-> Dict(names[k])]]

GeneItems == {Gene(<<BRCA1, Brca1>>), Gene(<<RNF53>>)}

\* an entry of the parsed file; a recommendedName whose fullName is Absent
\* stands for an entry without recommendedName, an empty sequence for a
\* key that is not there
Entry(accessions, name, recommended, submitted, alternative, gene) ==
  [accession |-> accessions, name |-> <<Str(name)>>,
   protein |-> [recommendedName |-> [fullName |-> recommended],
                submittedName |-> submitted,
                alternativeName |-> alternative],
   gene |-> gene]

Entries ==
  { Entry(a, BRCA1_HUMAN, r, sb, al, g) :
      a \in {<<Str(P12345)>>, <<Str(P12345), Str(Q99999)>>},
      r \in {Absent, Dict(BreastCancerProtein), Str(BreastCancerProtein),
             Dict(UncharacterizedProtein)},
      sb \in {<<>>, <<[fullName |-> Dict(RingFingerProtein)]>>,
              <<[fullName |-> Str(RingFingerProtein)]>>,
              <<[fullName |-> Dict(UncharacterizedLower)]>>},
      al \in SeqsUpTo(AlternativeNameItems, MaxAlternativeNames),
      g \in SeqsUpTo(GeneItems, MaxGenes) }

\* the BRCA1 entry: two accessions, a recommended name, one alternative
\* name with a short name only, one gene name
BrcaEntry(recommended) ==
  Entry(<<Str(P12345), Str(Q99999)>>, BRCA1_HUMAN, recommended, <<>>,
        <<AlternativeName(Absent, <<Str(RingFingerProtein)>>)>>,
        <<Gene(<<BRCA1>>)>>)

BrcaEntries ==
  {BrcaEntry(Dict(BreastCancerProtein)), BrcaEntry(Str(BreastCancerProtein))}

\* the run is at the loop of download_uniprot_entries over the entries of
\* the one file there is to parse (mode "alias", one batch retrieved)
InitUniprot ==
  /\ entry = "download_uniprot_entries"
  /\ pc = "due_loop"
  /\ mode = "alias"
  /\ xml_paths = <<0>>
  /\ comp_count = 1
  /\ NoArticles
  /\ NoDocs
  /\ content \in {<<e>> : e \in Entries \cup BrcaEntries}
                   \cup {<<b, e>> : b \in BrcaEntries, e \in BrcaEntries}
  /\ query = Str("")
  /\ srv_count = 0
  /\ pmid_list = <<>>
  /\ webenv = NoWebEnv
  /\ query_dir = TRUE
  /\ args = NoArgs
  /\ requests = <<>>
  /\ caught = FALSE
  /\ fs = [f \in FileNames |-> NoFile]
  /\ ret = None
  /\ index = 0
  /\ count = 0
  /\ pm_recs = <<>>
  /\ pmc_ids_trim = <<>>
  /\ multiple_xml = FALSE
  /\ batches = <<>>
  /\ success = FALSE
  /\ srv_doctype = PmcDoctype
  /\ entrycount = 0
  /\ aliases = <<>>
  /\ prompts = <<>>

SpecAliases == InitUniprot /\ [][DownloadUniprotEntries]_vars

\* the run starts in download_uniprot_entries(idlist, mode, parse_file_name)
\* with the accessions 1..n; content holds the entries of the provided
\* file in mode "alias_only", the entries the server sends for a batch in
\* the other modes
InitProteins ==
  /\ entry = "download_uniprot_entries"
  /\ pc = "due_start"
  /\ mode \in Modes
  /\ srv_count \in 0..MaxAccessions
  /\ pmid_list = Ids(srv_count)
  /\ content \in {<<>>} \cup {<<e>> : e \in BrcaEntries}
  /\ xml_paths = <<>>
  /\ comp_count = 0
  /\ query = Str("")
  /\ webenv = NoWebEnv
  /\ query_dir = FALSE
  /\ args = NoArgs
  /\ requests = <<>>
  /\ caught = FALSE
  /\ fs = [f \in FileNames |-> NoFile]
  /\ ret = None
  /\ index = 0
  /\ count = 0
  /\ pm_recs = <<>>
  /\ pmc_ids_trim = <<>>
  /\ multiple_xml = FALSE
  /\ batches = <<>>
  /\ success = FALSE
  /\ srv_doctype = PmcDoctype
  /\ entrycount = 0
  /\ aliases = <<>>
  /\ prompts = <<>>
  /\ NoArticles
  /\ NoDocs

\* the two functions that go through their ids batch by batch
SpecBatches ==
  (InitPtc \/ InitProteins)
    /\ [][DownloadPtcGeneAnnotations \/ DownloadUniprotEntriesWhole]_vars

\* ------------------------------------------------------------- parse_docs
\* Largest number of MEDLINE files handed to parse_docs, and of records in
\* one file.
MaxFiles == 2
MaxRecords == 2

\* MEDLINE records as Bio.Medline yields them: a dict from the field code to
\* a text or to a list of texts
RecordItems ==
  { [PMID |-> Str(P12345), TI |-> Str(BreastCancerProtein)],
    [PMID |-> Str(Q99999), AU |-> List(<<BRCA1, RNF53>>), IS |-> Str(Brca1)],
    [PMID |-> Str(Q99999), AU |-> List(<<RNF53>>),
     MH |-> List(<<BRCA1, Brca1, RNF53>>)] }

\* the files of MEDLINE_PATH, each with the records Medline.parse yields
MedlineFiles == SeqsUpTo(SeqsUpTo(RecordItems, MaxRecords), MaxFiles)

\* lines 119-120: input_db_connect is neither defined nor imported in
\* protexam_input.py (the names of the module are those of lines 12-19 and
\* its own functions), so the first statement of parse_docs raises
\* NameError, whatever the argument; the function gets no further
PdConnect ==
  /\ pc = "pd_start"
  /\ pc' = "crashed"
  /\ UNCHANGED <<fixed, prot, chk, prs, prompts, query_dir, requests,
                 pmid_list, webenv, count, index, pm_recs, pmc_ids_trim,
                 multiple_xml, batches, success, caught, fs, ret>>

ParseDocs == PdConnect

\* the run starts in parse_docs(doc_file_index), the argument as
\* get_local_docs makes it (lines 32-40)
InitDocs ==
  /\ entry = "parse_docs"
  /\ pc = "pd_start"
  /\ doc_file_index \in [medline : MedlineFiles, raw : {<<>>}]
  /\ doc_id = 0
  /\ newrecords = <<>>
  /\ query = Str("")
  /\ srv_count = 0
  /\ pmid_list = <<>>
  /\ webenv = NoWebEnv
  /\ query_dir = TRUE
  /\ args = NoArgs
  /\ requests = <<>>
  /\ caught = FALSE
  /\ fs = [f \in FileNames |-> NoFile]
  /\ ret = None
  /\ index = 0
  /\ count = 0
  /\ pm_recs = <<>>
  /\ pmc_ids_trim = <<>>
  /\ multiple_xml = FALSE
  /\ batches = <<>>
  /\ success = FALSE
  /\ srv_doctype = PmcDoctype
  /\ content = <<>>
  /\ entrycount = 0
  /\ aliases = <<>>
  /\ prompts = <<>>
  /\ NoProteins
  /\ NoArticles

SpecDocs == InitDocs /\ [][ParseDocs]_vars

\* --------------------------- the full-text check of download_pmc_entries
\* Largest number of article elements of the parsed file.
MaxArticles == 3

\* an article element as the check sees it: whether it has an article-id of
\* pub-id-type "pmid" under front/article-meta, and whether it has a body
ArticleShapes == [has_pmid : BOOLEAN, body : BOOLEAN]

\* the text of the pmid article-ids of the k-th article: distinct articles
\* have distinct PMIDs, the k-th article the PMID k
PmidsOf(k) == IF articles[k].has_pmid THEN <<k>> ELSE <<>>

\* lines 273-280: one pass of the loop over the articles.  pmid is assigned
\* only by an article-id of type pmid (276) and is read at 280 whatever the
\* inner loop did: it holds the PMID of an earlier article when this one
\* has none, and is unbound when none had one so far (UnboundLocalError,
\* which the except clause of line 281 does not name)
DpmArticle ==
  /\ pc = "dpm_articles"
  /\ checked < Len(articles)
  /\ checked' = checked + 1
  /\ pmid' = IF PmidsOf(checked + 1) # <<>> THEN Bound(checked + 1) ELSE pmid
  /\ pub_ids' = pub_ids \o PmidsOf(checked + 1)
  /\ IF ~articles[checked + 1].body
     THEN UNCHANGED <<fulldoc_ids, pc>>
     ELSE IF pmid'.bound
     THEN /\ fulldoc_ids' = Append(fulldoc_ids, pmid'.holds)
          /\ UNCHANGED pc
     ELSE /\ pc' = "crashed"
          /\ UNCHANGED fulldoc_ids
  /\ UNCHANGED <<fixed, prot, prs, prompts, query_dir, requests, pmid_list,
                 webenv, count, index, pm_recs, pmc_ids_trim, multiple_xml,
                 batches, success, caught, fs, ret>>

\* lines 273, 285-286: the articles are gone through, the two counts are
\* printed
DpmArticlesEnd ==
  /\ pc = "dpm_articles"
  /\ checked = Len(articles)
  /\ pc' = "dpm_done"
  /\ ret' = None
  /\ UNCHANGED <<fixed, prot, chk, prs, prompts, query_dir, requests,
                 pmid_list, webenv, count, index, pm_recs, pmc_ids_trim,
                 multiple_xml, batches, success, caught, fs>>

\* the run is at the loop of the full-text check (line 273), the file of
\* one fetched document parsed into its articles
InitArticles ==
  /\ entry = "download_pmc_entries"
  /\ pc = "dpm_articles"
  /\ articles \in SeqsUpTo(ArticleShapes, MaxArticles)
  /\ checked = 0
  /\ pmid = Unbound
  /\ pub_ids = <<>>
  /\ fulldoc_ids = <<>>
  /\ fs = [f \in FileNames |->
             IF f = "pmc_fulltexts.txt"
             THEN File(PrettyXml(PmcDoctype, "pmc-articleset",
                    [k \in 1..Len(articles) |-> <<"\t", "<article>", ToString(k)>>]))
             ELSE NoFile]
  /\ query = Str("")
  /\ srv_count = Len(articles)
  /\ pmid_list = <<>>
  /\ webenv = FirstWebEnv
  /\ query_dir = TRUE
  /\ args = NoArgs
  /\ requests = <<>>
  /\ caught = FALSE
  /\ ret = None
  /\ index = 0
  /\ count = Len(articles)
  /\ pm_recs = <<>>
  /\ pmc_ids_trim = <<>>
  /\ multiple_xml = FALSE
  /\ batches = <<>>
  /\ success = FALSE
  /\ srv_doctype = PmcDoctype
  /\ content = <<>>
  /\ entrycount = 0
  /\ aliases = <<>>
  /\ prompts = <<>>
  /\ NoProteins
  /\ NoDocs

SpecFullText == InitArticles /\ [][DpmArticle \/ DpmArticlesEnd]_vars

\* ----------------------------------------------------------------- claims
Ceil(a, b) == (a + b - 1) \div b

\* the requests a function has issued, in order
RequestsOf(fn) == SelectSeq(requests, LAMBDA r : r.fn = fn)

\* none of the function's requests failed
NoneFailed(fn) == \A k \in 1..Len(RequestsOf(fn)) : RequestsOf(fn)[k].ok

\* the retstart values of the function's requests, in order
Offsets(fn) == [k \in 1..Len(RequestsOf(fn)) |-> RequestsOf(fn)[k].retstart]

\* the efetch requests of get_remote_docs (its first request is the epost)
RemoteEfetches == SelectSeq(RequestsOf("get_remote_docs"), LAMBDA r : r.api = "efetch")

\* the items of a list without their tags
Untag(l) == Canon(Tagged(l, "id"))

\* the actions render the error-free run as RpqComplete and DpeComplete do
CompleteRunsAgree ==
  /\ (pc = "rpq_done" /\ ~caught) => ret = RpqComplete(srv_count)
  /\ (pc = "dpe_done" /\ ~caught) =>
       \E h \in BOOLEAN : Untag(ret.pm_recs) = Untag(DpeComplete(pmid_list, h).pm_recs)

\* C1: when no request fails, run_pubmed_query has issued exactly
\* ceil(T/retmax) esearch requests (the initial one included) by the time it
\* returns, T >= 1 being the total the server reports.
C1_ExactEsearchRequests ==
  (pc = "rpq_done" /\ NoneFailed("run_pubmed_query") /\ srv_count >= 1)
    => Len(RequestsOf("run_pubmed_query")) = Ceil(srv_count, retmax)

\* C2: download_pubmed_entries and download_pmc_entries, given N >= 1 ids,
\* issue their efetch requests at the offsets 0, retmax, 2*retmax, .., never
\* one whose offset is at or beyond N, and exactly ceil(N/retmax) of them
\* when none fails.
C2_NoTrailingEfetch ==
  /\ (pc \in {"dpe_loop", "dpe_single", "dpe_write", "dpe_done"} /\ count >= 1)
       => /\ \A k \in 1..Len(RequestsOf("download_pubmed_entries")) :
               /\ Offsets("download_pubmed_entries")[k] = (k - 1) * retmax
               /\ Offsets("download_pubmed_entries")[k] < count
          /\ (pc = "dpe_done" /\ NoneFailed("download_pubmed_entries"))
               => Len(RequestsOf("download_pubmed_entries")) = Ceil(count, retmax)
  /\ (pc \in {"dpm_loop", "dpm_single", "dpm_merge", "dpm_check", "dpm_done"}
        /\ count >= 1)
       => /\ \A k \in 1..Len(RequestsOf("download_pmc_entries")) :
               /\ Offsets("download_pmc_entries")[k] = (k - 1) * retmax
               /\ Offsets("download_pmc_entries")[k] < count
          /\ (pc = "dpm_done" /\ NoneFailed("download_pmc_entries"))
               => Len(RequestsOf("download_pmc_entries")) = Ceil(count, retmax)

\* C3: when no request fails, the list run_pubmed_query returns is the
\* server's result list: its T ids, each exactly once, in server order.
C3_ListIsServerList ==
  (pc = "rpq_done" /\ NoneFailed("run_pubmed_query"))
    => /\ ret.pmid_list = Ids(srv_count)
       /\ ListLen(ret.pmid_list) = srv_count
       /\ \A x \in {1, retmax, retmax + 1, srv_count} :
            (1 <= x /\ x <= srv_count) => Occurrences(ret.pmid_list, x) = 1

\* C4: the query ["BRCA1", "BRCA2"] is searched as "BRCA1 OR BRCA2"; with
\* Count = 2500 and no failure there are exactly 3 page requests, at the
\* offsets 0, 1000 and 2000, and the returned list has 2500 PMIDs.
C4_Brca2500Scenario ==
  (pc = "rpq_done" /\ NoneFailed("run_pubmed_query")
     /\ query = List(<<"BRCA1", "BRCA2">>) /\ srv_count = 2500)
    => /\ \A k \in 1..Len(RequestsOf("run_pubmed_query")) :
            RequestsOf("run_pubmed_query")[k].term = "BRCA1 OR BRCA2"
       /\ Offsets("run_pubmed_query") = <<0, 1000, 2000>>
       /\ ListLen(ret.pmid_list) = 2500

\* C5: when no request fails, get_remote_docs, given N >= 1 posted PMIDs,
\* has issued exactly ceil(N/batch_size) efetch requests when it returns.
C5_RemoteExactRequests ==
  (pc = "grd_done" /\ NoneFailed("get_remote_docs") /\ ListLen(pmid_list) >= 1)
    => Len(RemoteEfetches) = Ceil(ListLen(pmid_list), efetch_batch_size)

\* the ids a list holds are 1..TopId (the lists here are built from
\* windows that start at the first id)
TopId(l) == IF l = <<>> THEN 0 ELSE l[Len(l)].hi

\* C6: the value a paginated retrieval returns after an HTTP error in
\* mid-pagination differs from the value a complete retrieval of the same
\* records returns (run_pubmed_query, download_pubmed_entries,
\* get_remote_docs).
C6_ReturnTellsTruncation ==
  /\ (pc = "rpq_done" /\ caught)
       => ret # RpqComplete(TopId(ret.pmid_list))
  /\ (pc = "dpe_done" /\ caught)
       => \A h \in BOOLEAN : ret # DpeComplete(Untag(ret.pm_recs), h)
  /\ (pc = "grd_done" /\ caught)
       => ret # GrdReturnValue(TRUE)

\* the windows the server returned for the requests it answered, in order
RECURSIVE PagesOf(_, _)
PagesOf(reqs, ids) ==
  IF reqs = <<>> THEN <<>>
  ELSE Cat(IF reqs[1].ok THEN Slice(ids, reqs[1].retstart, retmax) ELSE <<>>,
           PagesOf(Tail(reqs), ids))

\* a request of the function failed, and only its last one
FailedLast(fn) ==
  /\ RequestsOf(fn) # <<>>
  /\ ~RequestsOf(fn)[Len(RequestsOf(fn))].ok
  /\ \A k \in 1..(Len(RequestsOf(fn)) - 1) : RequestsOf(fn)[k].ok

\* C7: in run_pubmed_query and download_pubmed_entries a page request that
\* fails is the stage's last request (it is not repeated, none follows it),
\* and the stage then writes to its file and returns exactly the pages
\* received before the failure.
C7_StopsAndKeepsPages ==
  /\ \A fn \in {"run_pubmed_query", "download_pubmed_entries"} :
       \A k \in 1..(Len(RequestsOf(fn)) - 1) : RequestsOf(fn)[k].ok
  /\ (pc = "rpq_done" /\ caught)
       => /\ FailedLast("run_pubmed_query")
          /\ ret.pmid_list = PagesOf(RequestsOf("run_pubmed_query"), Ids(srv_count))
          /\ fs["pmid_list.txt"] = File(ret.pmid_list)
  /\ (pc = "dpe_done" /\ caught)
       => /\ FailedLast("download_pubmed_entries")
          /\ Untag(ret.pm_recs) = PagesOf(RequestsOf("download_pubmed_entries"), pmid_list)
          /\ fs["entries.txt"] = File(ret.pm_recs)

\* C7 witness: in a run of main the search lost a page to an HTTP error
\* after receiving two, and the abstract download then lost its second page
C7_Witness ==
  /\ entry = "main"
  /\ pc = "dpe_done"
  /\ caught
  /\ FailedLast("run_pubmed_query")
  /\ Len(RequestsOf("run_pubmed_query")) = 3
  /\ Len(RequestsOf("download_pubmed_entries")) = 2
  /\ ret.pm_recs # <<>>

\* the requests that follow the initial search of a query
FollowUps ==
  SelectSeq(requests, LAMBDA r :
    /\ r.fn \in {"run_pubmed_query", "download_pubmed_entries", "download_pmc_entries"}
    /\ ~(r.fn = "run_pubmed_query" /\ r.retstart = 0))

\* C8: every request after the initial search (further esearch pages,
\* abstract efetch, PMC efetch) carries the WebEnv of the initial search
\* response, and the WebEnv held is not changed once acquired.
C8_OneSessionToken ==
  /\ \A k \in 1..Len(FollowUps) : FollowUps[k].webenv = FirstWebEnv
  /\ pc \in {"rpq_loop", "rpq_write", "rpq_done", "main_prompt_download",
             "dpe_start", "dpe_loop", "dpe_single", "dpe_write", "dpe_done",
             "dpm_start", "dpm_loop", "dpm_single", "dpm_merge", "dpm_check",
             "dpm_done"}
       => webenv = FirstWebEnv

\* C8 witness: a run of main with two further esearch pages, abstract
\* requests and a PMC request
C8_Witness ==
  /\ entry = "main"
  /\ Len(RequestsOf("run_pubmed_query")) >= 3
  /\ Len(RequestsOf("download_pubmed_entries")) >= 2
  /\ Len(RequestsOf("download_pmc_entries")) >= 1

\* the number of lines of the file that contain the pattern
RECURSIVE CountLines(_, _)
CountLines(lines, pat) ==
  IF lines = <<>> THEN 0
  ELSE (IF Contains(lines[1], pat) THEN 1 ELSE 0) + CountLines(Tail(lines), pat)

\* the full-text file exists and its stage is past the merge
PmcFinalized ==
  fs["pmc_fulltexts.txt"].exists /\ pc \notin {"dpm_loop", "dpm_merge"}

\* the annotation file exists and its stage is past the merge
PtcFinalized ==
  fs["gene_annotations.txt"].exists /\ pc \in {"dpg_done", "main_done"}

\* exactly one opening tag, before every child element, and exactly one
\* closing tag, on the last line
OneRoot(lines, root) ==
  /\ CountLines(lines, <<"<" \o root \o ">">>) = 1
  /\ CountLines(lines, <<"</" \o root \o ">">>) = 1
  /\ lines[Len(lines)] = <<"</" \o root \o ">">>
  /\ \A k \in 1..Len(lines) :
       Contains(lines[k], <<"\t">>)
         => \E j \in 1..(k - 1) : lines[j] = <<"<" \o root \o ">">>

\* C9: the finalized full-text file holds exactly one <pmc-articleset> tag,
\* ahead of all articles, and exactly one </pmc-articleset>, on its last
\* line; the finalized annotation file likewise for collection.
C9_SingleRoot ==
  /\ PmcFinalized => OneRoot(fs["pmc_fulltexts.txt"].content, "pmc-articleset")
  /\ PtcFinalized => OneRoot(fs["gene_annotations.txt"].content, "collection")

\* C9 witness: a run of main has finished with both files merged from
\* more than one fragment
C9_Witness ==
  /\ entry = "main"
  /\ pc = "main_done"
  /\ CountLines(fs["pmc_fulltexts.txt"].content, <<"<article>">>) >= 2
  /\ CountLines(fs["gene_annotations.txt"].content, <<"<document>">>) >= 2

\* the file holds no XML declaration line and no doctype line
NoPreamble(lines) ==
  /\ CountLines(lines, XmlDecl) = 0
  /\ CountLines(lines, <<"<!DOCTYPE ">>) = 0
  /\ CountLines(lines, <<"  PUBLIC '-//NLM//DTD ARTICLE SET 2.0//EN'">>) = 0
  /\ CountLines(lines,
       <<"  'https://dtd.nlm.nih.gov/ncbi/pmc/articleset/nlm-articleset-2.0.dtd'>">>) = 0
  /\ CountLines(lines, <<"  SYSTEM 'BioC.dtd'>">>) = 0

\* C10 as stated: whatever the number of fragments, the finalized
\* full-text file and the finalized annotation file hold no declaration
\* line and no doctype line.
C10_NoPreambleEver ==
  /\ PmcFinalized => NoPreamble(fs["pmc_fulltexts.txt"].content)
  /\ PtcFinalized => NoPreamble(fs["gene_annotations.txt"].content)

\* C10 amended: a file fetched with more than one request allowed (more
\* than retmax PMC ids, more than batch_size PMIDs) is merged and then
\* holds no declaration line and no doctype line; a file fetched in the
\* single request is left as fetched, with its one declaration.
C10_NoPreambleWhenMerged ==
  /\ (PmcFinalized /\ pc \in {"dpm_check", "dpm_done"})
       => IF count > retmax
          THEN NoPreamble(fs["pmc_fulltexts.txt"].content)
          ELSE CountLines(fs["pmc_fulltexts.txt"].content, XmlDecl) = 1
  /\ (PtcFinalized /\ pc = "dpg_done")
       => IF count > ptc_batch_size
          THEN NoPreamble(fs["gene_annotations.txt"].content)
          ELSE CountLines(fs["gene_annotations.txt"].content, XmlDecl) = 1

\* C10 witness: download_pmc_entries has returned after merging three
\* fragments
C10_Witness ==
  /\ pc = "dpm_done"
  /\ count > retmax
  /\ CountLines(fs["pmc_fulltexts.txt"].content, <<"<article>">>) = 3

\* ------------------------------------------------------------ C11 .. C20
\* the step enters the stage: the search, the download of the abstracts,
\* of the full texts, of the annotations
Enters(stage) == pc # stage /\ pc' = stage

\* the step puts a question and gets the answer yes
ConfirmsNow ==
  /\ Len(prompts') = Len(prompts) + 1
  /\ prompts'[Len(prompts')].response

\* the step puts a question and gets the answer no
DeclinesNow ==
  /\ Len(prompts') = Len(prompts) + 1
  /\ ~prompts'[Len(prompts')].response

\* C11 as stated: in a run of main every stage, the search and the
\* full-text download included, is entered in a step that obtains a
\* confirmation of its own.
C11_EveryStageConfirmed ==
  [][entry = "main"
       => \A stage \in {"rpq_search", "dpe_start", "dpm_start", "dpg_start"} :
            Enters(stage) => ConfirmsNow]_vars

\* C11 amended: a run of main obtains a confirmation at two points only.
\* The download of the abstracts is entered in the step that answers
\* "document download" with yes, the download of the annotations in the
\* step that answers "annotation download" with yes (--auto gives the
\* answer); the search and the full-text download are entered without a
\* question being put.
C11_DownloadsConfirmed ==
  [][entry = "main"
       => /\ Enters("dpe_start")
               => ConfirmsNow /\ prompts'[Len(prompts')].question = "document download"
          /\ Enters("dpg_start")
               => ConfirmsNow /\ prompts'[Len(prompts')].question = "annotation download"
          /\ Enters("rpq_search") => prompts' = prompts
          /\ Enters("dpm_start") => prompts' = prompts]_vars

\* C11 witness: an interactive run has entered the annotation download
\* after two questions answered yes
C11_Witness ==
  /\ entry = "main" /\ ~args.auto
  /\ pc = "dpg_start"
  /\ Len(prompts) = 2 /\ prompts[1].response /\ prompts[2].response

\* C12: the step in which the user declines ends the run: it issues no
\* request and writes no file, and from then on no request is issued and
\* every file stays as it is.
C12_DeclineStops ==
  [][/\ DeclinesNow
          => pc' = "exit_declined" /\ requests' = requests /\ fs' = fs
     /\ pc = "exit_declined"
          => pc' = pc /\ requests' = requests /\ fs' = fs]_vars

\* C12 witness: the second question was declined, with the files of the
\* search and of the document download on disk and no annotation file
C12_Witness ==
  /\ pc = "exit_declined"
  /\ Len(prompts) = 2
  /\ fs["pmid_list.txt"].exists /\ fs["entries.txt"].exists
  /\ fs["pmc_fulltexts.txt"].exists
  /\ ~fs["gene_annotations.txt"].exists

\* C13: a run of main without a query ends at "No query provided" with no
\* remote request issued, no query directory and no file created.
C13_NoQueryNoEffect ==
  (entry = "main" /\ query = NoQuery)
    => /\ pc \in {"main_start", "exit_no_query"}
       /\ requests = <<>>
       /\ ~query_dir
       /\ \A f \in FileNames : ~fs[f].exists

\* C13 witness: the run without a query has ended
C13_Witness ==
  entry = "main" /\ query = NoQuery /\ pc = "exit_no_query"

\* the full-text file is on disk and is not one XML document
PmcMalformed ==
  /\ fs["pmc_fulltexts.txt"].exists
  /\ ~XmlParses(fs["pmc_fulltexts.txt"].content, "pmc-articleset")

\* C14: when the check of download_pmc_entries finds the merged full-text
\* file malformed, the function still returns normally (and main goes on
\* to the annotation prompt): the parse error does not end the run.
C14_ParseErrorCaught ==
  [][(pc = "dpm_check" /\ PmcMalformed) => pc' = "dpm_done"]_vars

\* the pieces of a line between the separators
RECURSIVE Fields(_, _)
Fields(line, sep) ==
  IF \A k \in 1..Len(line) : line[k] # sep THEN <<line>>
  ELSE LET k == CHOOSE i \in 1..Len(line) :
                  line[i] = sep /\ \A j \in 1..(i - 1) : line[j] # sep
       IN <<SubSeq(line, 1, k - 1)>> \o Fields(SubSeq(line, k + 1, Len(line)), sep)

\* a text as it stands in a written line
Written(text) == Lower(Replace(text, " ", "_"))

AliasLines == fs["aliases.txt"].content

\* the loop has gone through an entry and written its line: the entry is
\* content[entrycount], the line is the last one of the file
Normalized ==
  /\ entry = "download_uniprot_entries"
  /\ pc \in {"due_loop", "due_done"}
  /\ entrycount >= 1

\* the step goes through the next entry, content[entrycount + 1]
Normalizes ==
  /\ entry = "download_uniprot_entries"
  /\ pc = "due_loop"
  /\ entrycount' = entrycount + 1

\* C15: no alias of a written line is the placeholder "uncharacterized
\* protein", in whatever letter case the entry carries it and however many
\* of its names carry it.
C15_NoPlaceholderWritten ==
  \A k \in 1..Len(AliasLines) :
    \A j \in 1..Len(Fields(AliasLines[k], "|")) :
      Fields(AliasLines[k], "|")[j] # Written(UncharacterizedLower)

\* C16: the aliases of a written line, as written (lower case, underscores
\* for spaces), are pairwise different.
C16_WrittenAliasesDistinct ==
  \A k \in 1..Len(AliasLines) :
    LET written == Fields(AliasLines[k], "|")
    IN \A i, j \in 1..Len(written) : i # j => written[i] # written[j]

\* C17 as stated: for an entry with two accessions, the third alias is the
\* recommended full name when there is a recommended name, and the first
\* submitted name's full name when there is none.
C17_ThirdIsPrimaryName ==
  [][Normalizes /\ Len(content[entrycount + 1].accession) = 2
       => LET protein == content[entrycount + 1].protein
              rec == protein.recommendedName.fullName
              sub == protein.submittedName
          IN /\ rec.kind # "absent" => aliases'[3] = Str(rec.val)
             /\ (rec.kind = "absent" /\ sub # <<>>)
                  => aliases'[3] = Str(sub[1].fullName.val)]_vars

\* the name is kept where it was put: it is not the literal the code takes
\* out and repeats none of the aliases ahead of it
KeptInPlace(text, e) ==
  /\ text # UncharacterizedProtein
  /\ \A k \in 1..Len(e.accession) : e.accession[k] # Str(text)
  /\ e.name[1] # Str(text)

\* C17 amended: for an entry with two accessions the aliases are the two
\* accessions, the entry name, then the primary name. The fourth alias is
\* the recommended full name when there is a recommended name, and the first
\* submitted name's full name when there is none and that full name is a
\* dict with the text (in both cases unless the name is the literal
\* "Uncharacterized protein" or repeats an earlier alias). With no
\* recommended name and the submitted full name a bare string, or no
\* submitted name, the run ends with the exception and no line is written.
C17_FourthIsPrimaryName ==
  [][Normalizes /\ Len(content[entrycount + 1].accession) = 2
       => LET e == content[entrycount + 1]
              rec == e.protein.recommendedName.fullName
              sub == e.protein.submittedName
          IN /\ (rec.kind # "absent" /\ KeptInPlace(rec.val, e))
                  => Len(aliases') >= 4 /\ aliases'[4] = Str(rec.val)
             /\ (rec.kind = "absent" /\ sub # <<>>
                   /\ sub[1].fullName.kind = "dict"
                   /\ KeptInPlace(sub[1].fullName.val, e))
                  => Len(aliases') >= 4 /\ aliases'[4] = Str(sub[1].fullName.val)
             /\ (rec.kind = "absent"
                   /\ (sub = <<>> \/ sub[1].fullName.kind # "dict"))
                  => pc' = "crashed" /\ Len(AliasLines') = Len(AliasLines)]_vars

\* C17 witness: an entry with two accessions and no recommended name has
\* been gone through, its fourth alias is the submitted name
C17_Witness ==
  /\ Normalized
  /\ Len(content[entrycount].accession) = 2
  /\ content[entrycount].protein.recommendedName.fullName = Absent
  /\ Len(aliases) >= 4 /\ aliases[4] = Str(RingFingerProtein)

\* C18: for an entry with a recommended or a submitted name, the primary
\* name (the recommended full name, or else the first submitted name's full
\* name; the text of a dict or the bare string) is put into the alias list
\* right after the accessions and the entry name, whatever the shape of the
\* full name.
C18_PrimaryNameWhateverShape ==
  [][Normalizes
       => LET e == content[entrycount + 1]
              rec == e.protein.recommendedName.fullName
              sub == e.protein.submittedName
              chosen == IF rec.kind # "absent" THEN rec.val ELSE sub[1].fullName.val
              n == Len(e.accession) + 2
          IN ((rec.kind # "absent" \/ sub # <<>>) /\ KeptInPlace(chosen, e))
               => Len(aliases') >= n /\ aliases'[n] = Str(chosen)]_vars

\* the text is one of the aliases of the line
InLine(text, line) ==
  \E j \in 1..Len(Fields(line, "|")) : Fields(line, "|")[j] = Written(text)

\* C19: the line written for an entry starts with its accessions in source
\* order and its entry name, and holds, of every alternative name, the full
\* name or else the first short name (the placeholder apart), and every
\* gene name of every gene element.
C19_LineHoldsEveryName ==
  Normalized
    => LET e == content[entrycount]
           line == AliasLines[Len(AliasLines)]
           n == Len(e.accession)
       IN /\ \A k \in 1..n : Fields(line, "|")[k] = Written(e.accession[k].val)
          /\ Fields(line, "|")[n + 1] = Written(e.name[1].val)
          /\ \A k \in 1..Len(e.protein.alternativeName) :
               LET pair == e.protein.alternativeName[k]
               IN IF pair.fullName.kind # "absent"
                  THEN Lower(pair.fullName.val) # UncharacterizedLower
                         => InLine(pair.fullName.val, line)
                  ELSE pair.shortName # <<>>
                         => InLine(pair.shortName[1].val, line)
          /\ \A k \in 1..Len(e.gene) : \A j \in 1..Len(e.gene[k].name) :
               InLine(e.gene[k].name[j].val, line)

\* "p12345|q99999|brca1_human|breast_cancer_type_1_susceptibility_protein|ring_finger_protein_53|brca1"
BrcaLine ==
  <<"p", "1", "2", "3", "4", "5", "|", "q", "9", "9", "9", "9", "9", "|",
    "b", "r", "c", "a", "1", "_", "h", "u", "m", "a", "n", "|", "b", "r",
    "e", "a", "s", "t", "_", "c", "a", "n", "c", "e", "r", "_", "t", "y",
    "p", "e", "_", "1", "_", "s", "u", "s", "c", "e", "p", "t", "i", "b",
    "i", "l", "i", "t", "y", "_", "p", "r", "o", "t", "e", "i", "n", "|",
    "r", "i", "n", "g", "_", "f", "i", "n", "g", "e", "r", "_", "p", "r",
    "o", "t", "e", "i", "n", "_", "5", "3", "|", "b", "r", "c", "a", "1">>

\* C20: the line written for the BRCA1 entry is
\* p12345|q99999|brca1_human|breast_cancer_type_1_susceptibility_protein|ring_finger_protein_53|brca1
C20_BrcaLine ==
  (Normalized /\ content[entrycount] \in BrcaEntries)
    => AliasLines[Len(AliasLines)] = BrcaLine

\* C20 witness: the loop is through the BRCA1 entry
C20_Witness ==
  /\ entry = "download_uniprot_entries"
  /\ pc = "due_done"
  /\ content \in {<<b>> : b \in BrcaEntries}
  /\ Len(AliasLines) = 1

\* the requests of the batches of download_uniprot_entries
ProteinRequests ==
  SelectSeq(RequestsOf("download_uniprot_entries"),
            LAMBDA r : r.api = "uploadlists")

\* C21: in mode "alias_only" download_uniprot_entries retrieves nothing,
\* ends abnormally only when a remote call has failed, and, once it has
\* returned, aliases.txt exists and holds one line per entry of the
\* provided file.
C21_AliasOnlyWritesAliases ==
  (entry = "download_uniprot_entries" /\ mode = "alias_only") =>
    /\ ProteinRequests = <<>>
    /\ (pc = "crashed" => ~NoneFailed("download_uniprot_entries"))
    /\ (pc = "due_done" =>
          /\ fs["aliases.txt"].exists
          /\ Len(AliasLines) = Len(content))

\* the concatenation of the batches the requests name, in request order
RECURSIVE Requested(_)
Requested(reqs) ==
  IF reqs = <<>> THEN <<>> ELSE Cat(reqs[1].term, Requested(Tail(reqs)))

\* the requests reqs are those of the batches of size b of the list:
\* ceil(N/b) of them, each naming at most b ids, together naming the list
BatchedBy(reqs, idlist, b) ==
  /\ Len(reqs) = Ceil(ListLen(idlist), b)
  /\ \A k \in 1..Len(reqs) : ListLen(reqs[k].term) <= b
  /\ Requested(reqs) = idlist

\* the requests reqs are the first ones of the batches of size b
BatchedSoFar(reqs, idlist, b) ==
  /\ Len(reqs) <= Ceil(ListLen(idlist), b)
  /\ \A k \in 1..Len(reqs) : ListLen(reqs[k].term) <= b
  /\ Requested(reqs) = Slice(idlist, 0, ListLen(Requested(reqs)))

\* C22: download_ptc_gene_annotations with N PMIDs has, once its loop is
\* through, issued exactly ceil(N/100) requests (none when N = 0), each
\* naming at most 100 PMIDs, whose batches concatenated are the input list;
\* until then the requests are the first of these.  The same holds of the
\* batch requests of download_uniprot_entries with 1000.
C22_BatchesCoverList ==
  /\ entry = "download_ptc_gene_annotations" =>
       /\ BatchedSoFar(RequestsOf(entry), pmid_list, 100)
       /\ pc = "dpg_done" => BatchedBy(RequestsOf(entry), pmid_list, 100)
  /\ (entry = "download_uniprot_entries" /\ Retrieves(mode)) =>
       /\ BatchedSoFar(ProteinRequests, pmid_list, 1000)
       /\ pc \in {"due_parse", "due_loop", "due_done"} =>
            BatchedBy(ProteinRequests, pmid_list, 1000)

\* download_ptc_gene_annotations has returned after three batches, the last
\* one short
C22_Witness ==
  /\ entry = "download_ptc_gene_annotations"
  /\ pc = "dpg_done"
  /\ Len(RequestsOf(entry)) = 3
  /\ ListLen(pmid_list) = 201

\* the records of the MEDLINE files in the order parse_docs is to process
\* them
RECURSIVE Flat(_)
Flat(files) == IF files = <<>> THEN <<>> ELSE files[1] \o Flat(Tail(files))

DocRecords == Flat(doc_file_index.medline)

\* the run of parse_docs is over
DocsOver == entry = "parse_docs" /\ pc \in {"pd_done", "crashed"}

\* n is record r normalized: no value is a list, a list is replaced by its
\* items joined with '|', any other value is kept, 'IS' is gone and every
\* other field is there
NormalizedRecord(r, n) ==
  /\ "IS" \notin DOMAIN n
  /\ DOMAIN r \ {"IS"} \subseteq DOMAIN n
  /\ \A f \in DOMAIN n : n[f].kind # "list"
  /\ \A f \in DOMAIN r \ {"IS", "id"} :
       n[f] = IF r[f].kind = "list" THEN Str(JoinText("|", r[f].val))
              ELSE r[f]

\* C23: when a run of parse_docs is over, every record of the MEDLINE files
\* has been normalized: each list-valued field replaced by its items joined
\* with '|', every other field kept, 'IS' dropped and no other field
\* dropped.
C23_RecordsNormalized ==
  DocsOver =>
    /\ Len(newrecords) = Len(DocRecords)
    /\ \A k \in 1..Len(DocRecords) :
         NormalizedRecord(DocRecords[k], newrecords[k])

\* C24: when a run of parse_docs is over, the records of all the MEDLINE
\* files have been given the ids 0, 1, 2, ... in processing order, the
\* count running on from one file to the next.
C24_IdsRunOn ==
  DocsOver =>
    /\ Len(newrecords) = Len(DocRecords)
    /\ \A k \in 1..Len(DocRecords) : newrecords[k]["id"] = k - 1
    /\ doc_id = Len(DocRecords)

\* the positions inside the four pagination loops, each with the function
\* it belongs to
LoopOf ==
  [rpq_loop |-> "run_pubmed_query", dpe_loop |-> "download_pubmed_entries",
   dpm_loop |-> "download_pmc_entries", grd_loop |-> "get_remote_docs"]

InLoop == pc \in DOMAIN LoopOf

\* the total the loop at hand runs up to
LoopTotal == IF pc = "grd_loop" THEN ListLen(pmid_list) ELSE count

\* C25: every pass of a pagination loop issues one request and either
\* leaves the loop for good (the loop condition false, or the request
\* failed) or moves the index on; the index stays below the total plus two
\* pages and the function's requests number at most total/1000 + 2: the
\* loop is left after finitely many requests whatever the answers are.
C25_LoopsTerminate ==
  [][InLoop =>
       /\ index < LoopTotal + 2 * 1000
       /\ Len(RequestsOf(LoopOf[pc])) <= LoopTotal \div 1000 + 2
       /\ Len(requests') <= Len(requests) + 1
       /\ pc' = pc => (index' > index /\ Len(requests') = Len(requests) + 1)
       /\ pc' # pc => pc' \notin DOMAIN LoopOf]_vars

\* the esearch loop has ended by itself after three pages
C25_Witness ==
  /\ entry = "run_pubmed_query"
  /\ pc = "rpq_write"
  /\ ~caught
  /\ Len(requests) = 4

\* the lines of the declaration and of the doctypes
PreambleLines ==
  {XmlDecl} \cup {PmcDoctype[k] : k \in 1..Len(PmcDoctype)}
            \cup {PmcDoctypeOther[k] : k \in 1..Len(PmcDoctypeOther)}
            \cup {PtcDoctype[k] : k \in 1..Len(PtcDoctype)}

\* the merged files, each with its root element and its boilerplate lines
MergedFiles ==
  { [fn |-> "pmc_fulltexts.txt", root |-> "pmc-articleset", boilerplate |-> {}],
    [fn |-> "gene_annotations.txt", root |-> "collection",
     boilerplate |-> {PtcBoilerplate[k] : k \in 1..Len(PtcBoilerplate)}] }

\* the line is content of a fragment of m: no root tag line, no line of the
\* declaration or doctype, no boilerplate line
IsContent(line, m) ==
  /\ ~Contains(line, <<"<" \o m.root \o ">">>)
  /\ ~Contains(line, <<"</" \o m.root \o ">">>)
  /\ line \notin PreambleLines
  /\ line \notin m.boilerplate

ContentOf(lines, m) == SelectSeq(lines, LAMBDA line : IsContent(line, m))

\* a is b with some lines left out
RECURSIVE IsSubseq(_, _)
IsSubseq(a, b) ==
  IF a = <<>> THEN TRUE
  ELSE IF b = <<>> THEN FALSE
  ELSE IF a[1] = b[1] THEN IsSubseq(Tail(a), Tail(b))
  ELSE IsSubseq(a, Tail(b))

\* the step is the merge of the file of m
Merges(m) ==
  /\ fs[m.fn].exists
  /\ fs'[m.fn] # fs[m.fn]
  /\ pc = "dpm_merge" \/ (pc = "dpg_loop" /\ batches = <<>>)

\* C26: a merge keeps every content line of every fragment exactly once and
\* in its place (the content lines of the merged file are those of the
\* fragments, in the same order), what it writes before its last line are
\* lines of the fragments in their order, and its last line is the one
\* closing root tag it adds.
C26_MergeKeepsContent ==
  [][\A m \in MergedFiles :
       Merges(m) =>
         LET before == fs[m.fn].content
             after == fs'[m.fn].content
         IN /\ ContentOf(after, m) = ContentOf(before, m)
            /\ after # <<>>
            /\ after[Len(after)] = <<"</" \o m.root \o ">">>
            /\ IsSubseq(SubSeq(after, 1, Len(after) - 1), before)
            /\ CountLines(after, <<"</" \o m.root \o ">">>) = 1]_vars

\* the annotations of three batches have been merged, one document line
\* of each batch in the file
C26_Witness ==
  /\ entry = "download_ptc_gene_annotations"
  /\ pc = "dpg_done"
  /\ multiple_xml
  /\ Len(ContentOf(fs["gene_annotations.txt"].content,
                   CHOOSE m \in MergedFiles : m.fn = "gene_annotations.txt")) = 3

\* no item occurs twice in the sequence
Distinct(l) == \A i, j \in 1..Len(l) : l[i] = l[j] => i = j

\* C27: in the full-text check, an id is added to fulldoc_ids only for an
\* article that has a body, and it is a PMID of that very article; so no id
\* is in the list twice, and the list is never longer than pub_ids.
C27_FullTextIdsOwn ==
  [][(entry = "download_pmc_entries" /\ pc = "dpm_articles") =>
       /\ fulldoc_ids' # fulldoc_ids =>
            /\ articles[checked'].body
            /\ \E k \in 1..Len(PmidsOf(checked')) :
                 fulldoc_ids' = Append(fulldoc_ids, PmidsOf(checked')[k])
       /\ Distinct(fulldoc_ids')
       /\ Len(fulldoc_ids') <= Len(pub_ids')]_vars

====
